---- MODULE Spec2Model ----
(***************************************************************************)
(* Model of the rule-based message-analysis service (MLService, ml.ts):    *)
(* the knowledge catalog with its initialization and ingestion, and the    *)
(* analysis pipeline (intents, entities, sentiment, urgency, response      *)
(* retrieval, required actions).                                           *)
(*                                                                         *)
(* Conventions.                                                            *)
(*  - JavaScript strings are TLA+ strings; a character is a string of      *)
(*    length 1 and positions are 1-based here, 0-based in the entities'    *)
(*    start/end fields as in the source.                                   *)
(*  - Confidences are written in hundredths: 90 stands for 0.90.           *)
(*  - A value that may be a non-string at run time is wrapped as           *)
(*    [kind |-> "string", value |-> s] or [kind |-> "undefined"].          *)
(*  - null and undefined results of string type are the strings JsNull     *)
(*    and JsUndefined, which no response template equals.                  *)
(***************************************************************************)
EXTENDS Integers, Sequences, FiniteSets, TLC

----------------------------------------------------------------------------
(* State                                                                   *)

VARIABLES
  initialized,     \* MLService.initialized
  knowledgeBase,   \* MLService.knowledgeBase
  store,           \* spark.kv under the key autism_knowledge_base
  storeAtStart,    \* history: the store at construction
  op,              \* per call: the operation called, "none" before the call
  pc,              \* per call: where it is suspended
  arg,             \* per call: its arguments while it reads them
  io,              \* per call: its store request or the store's answer
  outcome,         \* per call: "pending", "returned" or "thrown"
  failedAt,        \* per call: the store access whose error it threw
  calledReady,     \* per call, history: the service was initialized when it was called
  sizeAtCall,      \* per call, history: the length of the in-memory catalog when it was called
  completion,      \* the call that completed last, with what it returned
  previous,        \* history: the completion before that one
  fnIn,            \* input of a pure function under check
  fnOut            \* its output

----------------------------------------------------------------------------
(* String primitives                                                       *)

JsNull == "<null>"
JsUndefined == "<undefined>"

UpperChars == <<"A","B","C","D","E","F","G","H","I","J","K","L","M",
                "N","O","P","Q","R","S","T","U","V","W","X","Y","Z">>
LowerChars == <<"a","b","c","d","e","f","g","h","i","j","k","l","m",
                "n","o","p","q","r","s","t","u","v","w","x","y","z">>
DigitChars == {"0","1","2","3","4","5","6","7","8","9"}

WordChars ==
  {UpperChars[i] : i \in 1..26} \cup {LowerChars[i] : i \in 1..26} \cup DigitChars \cup {"_"}

\* the character class \w of a JavaScript regular expression
isWordChar(ch) == ch \in WordChars

\* the character class \s, restricted to the ASCII white space
isSpaceChar(ch) == ch \in {" ", "\t", "\n", "\r"}

LowerOf == [ch \in {UpperChars[i] : i \in 1..26} |->
              LowerChars[CHOOSE i \in 1..26 : ch = UpperChars[i]]]

lowerChar(ch) == IF ch \in DOMAIN LowerOf THEN LowerOf[ch] ELSE ch

RECURSIVE toLowerCase(_)
toLowerCase(s) ==
  IF Len(s) = 0 THEN ""
  ELSE lowerChar(SubSeq(s, 1, 1)) \o toLowerCase(SubSeq(s, 2, Len(s)))

\* String.prototype.includes
includes(s, w) ==
  \E i \in 1..(Len(s) - Len(w) + 1) : SubSeq(s, i, i + Len(w) - 1) = w

\* a pattern without its \b anchors: every gap counts as a boundary
wordBoundaryAnywhere(s, i) == TRUE

\* \b at the gap before position i (1 <= i <= Len(s)+1): exactly one of the
\* two neighbours is a word character; outside the string counts as non-word
wordBoundary(s, i) ==
  LET before == i > 1 /\ isWordChar(SubSeq(s, i - 1, i - 1))
      after  == i <= Len(s) /\ isWordChar(SubSeq(s, i, i))
  IN  before # after

\* the literal w matches s at position i; ci is the regex flag i
literalAt(s, i, w, ci) ==
  /\ i + Len(w) - 1 <= Len(s)
  /\ LET part == SubSeq(s, i, i + Len(w) - 1)
     IN  IF ci THEN toLowerCase(part) = toLowerCase(w) ELSE part = w

\* /\b(w1|w2|...)\b/ matches s at position i with alternative k
wordAltAt(s, i, words, k, ci) ==
  /\ wordBoundary(s, i)
  /\ literalAt(s, i, words[k], ci)
  /\ wordBoundary(s, i + Len(words[k]))

\* RegExp.prototype.test for /\b(w1|w2|...)\b/
regexTest(s, words, ci) ==
  \E i \in 1..Len(s) :
    wordBoundary(s, i) /\ \E k \in 1..Len(words) : wordAltAt(s, i, words, k, ci)

\* the regex matches s at position i
matchesAt(s, words, i) ==
  wordBoundary(s, i) /\ \E k \in 1..Len(words) : wordAltAt(s, i, words, k, TRUE)

\* the leftmost position from `from` on where the regex matches, 0 for none
firstMatch(s, words, from) ==
  IF \E i \in from..Len(s) : matchesAt(s, words, i)
  THEN CHOOSE i \in from..Len(s) :
         /\ matchesAt(s, words, i)
         /\ \A g \in from..(i - 1) : ~matchesAt(s, words, g)
  ELSE 0

\* the first alternative that matches at position i
firstAlternative(s, words, i) ==
  CHOOSE a \in 1..Len(words) :
    /\ wordAltAt(s, i, words, a, TRUE)
    /\ \A b \in 1..(a - 1) : ~wordAltAt(s, i, words, b, TRUE)

\* The loop `while ((match = re.exec(text)) !== null)` of a global regex
\* /\b(w1|w2|...)\b/gi from position `from` (lastIndex + 1): the leftmost
\* position that matches, there the first alternative that matches, then on
\* from the end of that match.  Yields [value, index] with a 0-based index.
RECURSIVE execAll(_, _, _)
matchAndRest(s, words, i, n) ==
  << [value |-> SubSeq(s, i, i + n - 1), index |-> i - 1] >> \o execAll(s, words, i + n)

matchesFrom(s, words, i) ==
  IF i = 0 THEN << >>
  ELSE matchAndRest(s, words, i, Len(words[firstAlternative(s, words, i)]))

execAll(s, words, from) == matchesFrom(s, words, firstMatch(s, words, from))

inSeq(x, seq) == \E i \in 1..Len(seq) : seq[i] = x

----------------------------------------------------------------------------
(* The analysis pipeline: pure functions of the text                       *)

\* the crisis pattern without the alternative `help`
CrisisWordsWithoutHelp ==
  <<"emergency", "crisis", "urgent", "meltdown", "aggressive", "hurt", "danger">>

CrisisWords     == <<"emergency", "crisis", "help", "urgent", "meltdown",
                     "aggressive", "hurt", "danger">>
BehavioralWords == <<"behavior", "acting out", "stimming", "tantrum",
                     "disruptive", "calm", "focus">>
MedicalWords    == <<"medication", "sick", "tired", "pain", "headache",
                     "stomach", "allergy">>
AcademicWords   == <<"learning", "homework", "assignment", "reading", "math",
                     "progress", "goal">>
SupportWords    == <<"need help", "support", "assistance", "guidance",
                     "advice", "what should">>
RoutineWords    == <<"schedule", "routine", "break", "lunch", "transition",
                     "activity">>

\* the six rules as an if / else-if chain: the first rule that matches wins
recognizeIntentsFirstMatch(text) ==
  IF regexTest(text, CrisisWords, FALSE)
  THEN << [type |-> "crisis_alert", confidence |-> 90, category |-> "crisis"] >>
  ELSE IF regexTest(text, BehavioralWords, FALSE)
  THEN << [type |-> "behavior_report", confidence |-> 80, category |-> "behavioral"] >>
  ELSE IF regexTest(text, MedicalWords, FALSE)
  THEN << [type |-> "medical_concern", confidence |-> 85, category |-> "medical"] >>
  ELSE IF regexTest(text, AcademicWords, FALSE)
  THEN << [type |-> "academic_update", confidence |-> 70, category |-> "academic"] >>
  ELSE IF regexTest(text, SupportWords, FALSE)
  THEN << [type |-> "support_request", confidence |-> 75, category |-> "support"] >>
  ELSE IF regexTest(text, RoutineWords, FALSE)
  THEN << [type |-> "routine_update", confidence |-> 60, category |-> "routine"] >>
  ELSE << >>

\* a recognizer that checks the medical pattern before the behavioral one
recognizeIntentsMedicalFirst(text) ==
  (IF regexTest(text, CrisisWords, FALSE)
   THEN << [type |-> "crisis_alert", confidence |-> 90, category |-> "crisis"] >>
   ELSE << >>)
  \o (IF regexTest(text, MedicalWords, FALSE)
      THEN << [type |-> "medical_concern", confidence |-> 85, category |-> "medical"] >>
      ELSE << >>)
  \o (IF regexTest(text, BehavioralWords, FALSE)
      THEN << [type |-> "behavior_report", confidence |-> 80, category |-> "behavioral"] >>
      ELSE << >>)
  \o (IF regexTest(text, AcademicWords, FALSE)
      THEN << [type |-> "academic_update", confidence |-> 70, category |-> "academic"] >>
      ELSE << >>)
  \o (IF regexTest(text, SupportWords, FALSE)
      THEN << [type |-> "support_request", confidence |-> 75, category |-> "support"] >>
      ELSE << >>)
  \o (IF regexTest(text, RoutineWords, FALSE)
      THEN << [type |-> "routine_update", confidence |-> 60, category |-> "routine"] >>
      ELSE << >>)

\* recognizeIntents(text): six rules, each pushing one intent when its
\* case-sensitive regex matches the (already lowercased) text
recognizeIntents(text) ==
     (IF regexTest(text, CrisisWords, FALSE)
      THEN << [type |-> "crisis_alert", confidence |-> 90, category |-> "crisis"] >>
      ELSE << >>)
  \o (IF regexTest(text, BehavioralWords, FALSE)
      THEN << [type |-> "behavior_report", confidence |-> 80, category |-> "behavioral"] >>
      ELSE << >>)
  \o (IF regexTest(text, MedicalWords, FALSE)
      THEN << [type |-> "medical_concern", confidence |-> 85, category |-> "medical"] >>
      ELSE << >>)
  \o (IF regexTest(text, AcademicWords, FALSE)
      THEN << [type |-> "academic_update", confidence |-> 70, category |-> "academic"] >>
      ELSE << >>)
  \o (IF regexTest(text, SupportWords, FALSE)
      THEN << [type |-> "support_request", confidence |-> 75, category |-> "support"] >>
      ELSE << >>)
  \o (IF regexTest(text, RoutineWords, FALSE)
      THEN << [type |-> "routine_update", confidence |-> 60, category |-> "routine"] >>
      ELSE << >>)

EmotionWords == <<"happy", "sad", "angry", "frustrated", "calm", "excited",
                  "anxious", "overwhelmed">>
UrgencyWords == <<"urgent", "immediate", "asap", "emergency", "now", "quickly">>
TimeWords    == <<"morning", "afternoon", "lunch", "recess", "today",
                  "tomorrow", "now">>

\* the entity with the value normalised to lower case
entityOfLowered(match, type, confidence) ==
  [type |-> type, value |-> toLowerCase(match.value), confidence |-> confidence,
   start |-> match.index, end |-> match.index + Len(match.value)]

\* the entity pushed for one match
entityOf(match, type, confidence) ==
  [type |-> type, value |-> match.value, confidence |-> confidence,
   start |-> match.index, end |-> match.index + Len(match.value)]

toEntities(matches, type, confidence) ==
  [n \in 1..Len(matches) |-> entityOf(matches[n], type, confidence)]

\* the entities one regex loop pushes
entitiesOf(text, words, type, confidence) ==
  toEntities(execAll(text, words, 1), type, confidence)

\* an extractor that drops a time reference whose span an urgency
\* indicator already has
extractEntitiesDeduplicated(text) ==
  LET urgency == entitiesOf(text, UrgencyWords, "urgency", 90)
      time == entitiesOf(text, TimeWords, "time", 70)
  IN     entitiesOf(text, EmotionWords, "emotion", 80)
      \o urgency
      \o SelectSeq(time, LAMBDA e :
           \A n \in 1..Len(urgency) : urgency[n].start # e.start)

\* extractEntities(text): emotions, then urgency indicators, then time references
extractEntities(text) ==
     entitiesOf(text, EmotionWords, "emotion", 80)
  \o entitiesOf(text, UrgencyWords, "urgency", 90)
  \o entitiesOf(text, TimeWords, "time", 70)

PositiveWords == <<"good", "great", "happy", "calm", "success", "progress",
                   "better", "improvement">>
NegativeWords == <<"bad", "terrible", "angry", "upset", "problem", "issue",
                   "difficult", "struggle">>

\* the sentiment vote with ties going to positive
analyzeSentimentTiesPositive(text) ==
  IF Len(SelectSeq(PositiveWords, LAMBDA word : includes(text, word)))
       >= Len(SelectSeq(NegativeWords, LAMBDA word : includes(text, word)))
  THEN "positive"
  ELSE "negative"

\* analyzeSentiment(text): each lexicon word counts once when the text includes it
analyzeSentiment(text) ==
  LET positiveCount == Len(SelectSeq(PositiveWords, LAMBDA word : includes(text, word)))
      negativeCount == Len(SelectSeq(NegativeWords, LAMBDA word : includes(text, word)))
  IN  IF positiveCount > negativeCount THEN "positive"
      ELSE IF negativeCount > positiveCount THEN "negative"
      ELSE "neutral"

someCategory(intents, category) ==
  \E n \in 1..Len(intents) : intents[n].category = category

min(a, b) == IF a < b THEN a ELSE b
max(a, b) == IF a > b THEN a ELSE b

NegativeEmotions == <<"angry", "frustrated", "anxious", "overwhelmed">>

\* the scorer without its final Math.min/Math.max
calculateUrgencyScoreUnclamped(text, intents, entities) ==
  5 + (IF someCategory(intents, "crisis") THEN 4 ELSE 0)
    + (IF someCategory(intents, "medical") THEN 2 ELSE 0)
    + (IF someCategory(intents, "behavioral") THEN 1 ELSE 0)
    + Len(SelectSeq(entities, LAMBDA e : e.type = "urgency")) * 2
    + Len(SelectSeq(entities, LAMBDA e :
        e.type = "emotion" /\ inSeq(toLowerCase(e.value), NegativeEmotions)))

\* the scorer with the intent bonuses as an if / else-if chain and the
\* emotion values compared as they are written
calculateUrgencyScoreExclusive(text, intents, entities) ==
  min(10, max(0,
    5 + (IF someCategory(intents, "crisis") THEN 4
         ELSE IF someCategory(intents, "medical") THEN 2
         ELSE IF someCategory(intents, "behavioral") THEN 1 ELSE 0)
      + Len(SelectSeq(entities, LAMBDA e : e.type = "urgency")) * 2
      + Len(SelectSeq(entities, LAMBDA e :
          e.type = "emotion" /\ inSeq(e.value, NegativeEmotions)))))

\* the scorer with a bonus for academic intents as well
calculateUrgencyScoreAcademic(text, intents, entities) ==
  min(10, max(0,
    5 + (IF someCategory(intents, "crisis") THEN 4 ELSE 0)
      + (IF someCategory(intents, "medical") THEN 2 ELSE 0)
      + (IF someCategory(intents, "behavioral") THEN 1 ELSE 0)
      + (IF someCategory(intents, "academic") THEN 1 ELSE 0)
      + Len(SelectSeq(entities, LAMBDA e : e.type = "urgency")) * 2
      + Len(SelectSeq(entities, LAMBDA e :
          e.type = "emotion" /\ inSeq(toLowerCase(e.value), NegativeEmotions)))))

\* calculateUrgencyScore(text, intents, entities)
calculateUrgencyScore(text, intents, entities) ==
  LET base == 5
      s1 == base + (IF someCategory(intents, "crisis") THEN 4 ELSE 0)
      s2 == s1 + (IF someCategory(intents, "medical") THEN 2 ELSE 0)
      s3 == s2 + (IF someCategory(intents, "behavioral") THEN 1 ELSE 0)
      urgencyEntities == SelectSeq(entities, LAMBDA e : e.type = "urgency")
      s4 == s3 + Len(urgencyEntities) * 2
      negativeEmotions ==
        SelectSeq(entities, LAMBDA e :
          e.type = "emotion" /\ inSeq(toLowerCase(e.value), NegativeEmotions))
      s5 == s4 + Len(negativeEmotions)
  IN  min(10, max(0, s5))

\* the action rules with the escalation rule nested in the immediate-response
\* rule and its threshold off by one
determineRequiredActionsNested(intents, entities, urgencyScore) ==
     (IF urgencyScore >= 8
      THEN << "immediate_response_required", "escalate_to_supervisor" >> ELSE << >>)
  \o (IF someCategory(intents, "crisis")
      THEN << "notify_crisis_team", "document_incident" >> ELSE << >>)
  \o (IF someCategory(intents, "medical")
      THEN << "notify_school_nurse", "contact_parent" >> ELSE << >>)
  \o (IF someCategory(intents, "behavioral")
      THEN << "log_behavior_incident", "review_intervention_plan" >> ELSE << >>)
  \o (IF urgencyScore > 6 /\ urgencyScore < 8 THEN << "escalate_to_supervisor" >> ELSE << >>)

\* rules whose first one escalates too, so that a score of 8 or more
\* escalates twice
determineRequiredActionsEscalatingTwice(intents, entities, urgencyScore) ==
     (IF urgencyScore >= 8
      THEN << "immediate_response_required", "escalate_to_supervisor" >> ELSE << >>)
  \o (IF someCategory(intents, "crisis")
      THEN << "notify_crisis_team", "document_incident" >> ELSE << >>)
  \o (IF someCategory(intents, "medical")
      THEN << "notify_school_nurse", "contact_parent" >> ELSE << >>)
  \o (IF someCategory(intents, "behavioral")
      THEN << "log_behavior_incident", "review_intervention_plan" >> ELSE << >>)
  \o (IF urgencyScore >= 6 THEN << "escalate_to_supervisor" >> ELSE << >>)

\* determineRequiredActions(intents, entities, urgencyScore)
determineRequiredActions(intents, entities, urgencyScore) ==
     (IF urgencyScore >= 8 THEN << "immediate_response_required" >> ELSE << >>)
  \o (IF someCategory(intents, "crisis")
      THEN << "notify_crisis_team", "document_incident" >> ELSE << >>)
  \o (IF someCategory(intents, "medical")
      THEN << "notify_school_nurse", "contact_parent" >> ELSE << >>)
  \o (IF someCategory(intents, "behavioral")
      THEN << "log_behavior_incident", "review_intervention_plan" >> ELSE << >>)
  \o (IF urgencyScore >= 6 THEN << "escalate_to_supervisor" >> ELSE << >>)

----------------------------------------------------------------------------
(* The knowledge catalog: items, retrieval, seeding and ingestion helpers   *)

\* a sort that is not stable: an item goes ahead of the items of its priority
insertByPriorityUnstable(sorted, x) ==
  LET ahead == SelectSeq(sorted, LAMBDA y : y.priority > x.priority)
      behind == SelectSeq(sorted, LAMBDA y : y.priority <= x.priority)
  IN  ahead \o << x >> \o behind

\* Array.prototype.sort((a, b) => b.priority - a.priority): stable, so an
\* item goes behind every item whose priority is at least its own
insertByPriority(sorted, x) ==
  LET ahead == SelectSeq(sorted, LAMBDA y : y.priority >= x.priority)
      behind == SelectSeq(sorted, LAMBDA y : y.priority < x.priority)
  IN  ahead \o << x >> \o behind

RECURSIVE sortByPriority(_)
sortByPriority(items) ==
  IF items = << >> THEN << >>
  ELSE insertByPriority(sortByPriority(SubSeq(items, 1, Len(items) - 1)),
                        items[Len(items)])

\* the filter of getSuggestedResponse
isRelevant(item, intent, entities) ==
  \/ item.category = intent.category
  \/ \E k \in 1..Len(item.keywords) : \E n \in 1..Len(entities) :
       includes(toLowerCase(entities[n].value), toLowerCase(item.keywords[k]))

\* getSuggestedResponse(intent, entities) after its ensureInitialized, on
\* the catalog kb: filter (a copy), sort the copy, first response of the
\* first item, null when there is none
retrieveResponse(kb, intent, entities) ==
  LET relevantKnowledge == SelectSeq(kb, LAMBDA item : isRelevant(item, intent, entities))
  IN  IF Len(relevantKnowledge) = 0 THEN JsNull
      ELSE LET bestMatch == sortByPriority(relevantKnowledge)[1]
           IN  IF Len(bestMatch.responses) = 0 \/ bestMatch.responses[1] = ""
               THEN JsNull
               ELSE bestMatch.responses[1]

\* crypto.randomUUID(): a value no other creation yields; here the creating
\* call, what it creates (seed or ingested item) and the position
randomUUID(c, what, k) == << c, what, k >>

\* a seed set without the behavioral item
defaultKnowledgeWithoutBehavioral(c) == <<
  [id |-> randomUUID(c, "seed", 1), category |-> "crisis",
   content |-> "Meltdown management: Ensure safety, reduce stimuli, remain calm, use calming strategies",
   keywords |-> <<"meltdown", "overwhelmed", "crisis", "escalation">>,
   responses |-> <<"I understand this is a challenging situation. Let me help you with some immediate strategies.",
                   "Safety first - please ensure the student is in a safe environment and reduce any overwhelming stimuli.">>,
   priority |-> 10],
  [id |-> randomUUID(c, "seed", 3), category |-> "academic",
   content |-> "Learning support: Break tasks into smaller steps, use visual supports, provide processing time",
   keywords |-> <<"learning", "academic", "tasks", "processing", "comprehension">>,
   responses |-> <<"Breaking complex tasks into smaller, manageable steps often helps with learning.",
                   "Visual supports and extra processing time can make a significant difference.">>,
   priority |-> 6] >>

\* the array literal of initializeDefaultKnowledge, created by call c
defaultKnowledge(c) == <<
  [id |-> randomUUID(c, "seed", 1), category |-> "crisis",
   content |-> "Meltdown management: Ensure safety, reduce stimuli, remain calm, use calming strategies",
   keywords |-> <<"meltdown", "overwhelmed", "crisis", "escalation">>,
   responses |-> <<"I understand this is a challenging situation. Let me help you with some immediate strategies.",
                   "Safety first - please ensure the student is in a safe environment and reduce any overwhelming stimuli.">>,
   priority |-> 10],
  [id |-> randomUUID(c, "seed", 2), category |-> "behavioral",
   content |-> "Sensory seeking behaviors: Provide alternative sensory input, use fidget tools, create sensory breaks",
   keywords |-> <<"stimming", "sensory", "fidgeting", "self-regulation">>,
   responses |-> <<"Sensory behaviors often serve an important purpose. Consider providing alternative sensory tools.",
                   "Regular sensory breaks can help prevent overwhelming behaviors.">>,
   priority |-> 8],
  [id |-> randomUUID(c, "seed", 3), category |-> "academic",
   content |-> "Learning support: Break tasks into smaller steps, use visual supports, provide processing time",
   keywords |-> <<"learning", "academic", "tasks", "processing", "comprehension">>,
   responses |-> <<"Breaking complex tasks into smaller, manageable steps often helps with learning.",
                   "Visual supports and extra processing time can make a significant difference.">>,
   priority |-> 6] >>

\* content.replace(/[^\w\s]/g, '')
RECURSIVE stripPunctuation(_)
stripPunctuation(s) ==
  IF Len(s) = 0 THEN ""
  ELSE LET ch == SubSeq(s, 1, 1)
       IN  (IF isWordChar(ch) \/ isSpaceChar(ch) THEN ch ELSE "")
           \o stripPunctuation(SubSeq(s, 2, Len(s)))

\* String.prototype.split(/\s+/): the pieces between the maximal runs of
\* white space, an empty piece where the string starts or ends with one
RECURSIVE splitFrom(_, _, _, _)
splitFrom(s, i, cur, gap) ==
  IF i > Len(s) THEN << cur >>
  ELSE LET ch == SubSeq(s, i, i)
       IN  IF isSpaceChar(ch)
           THEN IF gap THEN splitFrom(s, i + 1, cur, TRUE)
                ELSE << cur >> \o splitFrom(s, i + 1, "", TRUE)
           ELSE splitFrom(s, i + 1, cur \o ch, FALSE)

splitWhitespace(s) == splitFrom(s, 1, "", FALSE)

\* [...new Set(words)]: first occurrences, in order
RECURSIVE dedupe(_)
dedupe(words) ==
  IF words = << >> THEN << >>
  ELSE LET front == dedupe(SubSeq(words, 1, Len(words) - 1))
           last == words[Len(words)]
       IN  IF inSeq(last, front) THEN front ELSE front \o << last >>

StopWords == <<"this", "that", "with", "have", "will", "been", "from", "they",
               "them", "were", "said", "each", "which", "their", "time", "about">>

\* extractKeywords(content)
extractKeywords(content) ==
  LET words == SelectSeq(splitWhitespace(stripPunctuation(toLowerCase(content))),
                         LAMBDA word : Len(word) > 3)
  IN  dedupe(SelectSeq(words, LAMBDA word : ~inSeq(word, StopWords)))

GenericResponses == <<"Thank you for this information. It will help improve student support.",
                      "This feedback is valuable for ongoing care planning.">>

\* generateResponses(content, category): the template table, the generic
\* pair for a category the table does not have
generateResponses(content, category) ==
  CASE category = "crisis" ->
         <<"This appears to be an urgent situation requiring immediate attention.",
           "Please ensure safety protocols are followed and document the incident.">>
    [] category = "medical" ->
         <<"Medical concerns should be addressed promptly with appropriate staff.",
           "Please contact the school nurse and notify parents if necessary.">>
    [] category = "behavioral" ->
         <<"Behavioral observations are important for developing effective strategies.",
           "Consider documenting triggers and successful interventions.">>
    [] category = "academic" ->
         <<"Academic progress tracking helps identify effective teaching strategies.",
           "Regular assessment helps ensure student needs are being met.">>
    [] category = "support" ->
         <<"Support requests help ensure students receive appropriate assistance.",
           "Collaboration between team members improves student outcomes.">>
    [] category = "routine" ->
         <<"Routine updates help maintain consistency for students who need structure.",
           "Clear schedules and transitions support student success.">>
    [] OTHER -> GenericResponses

\* the table categoryPriorities, `|| 5` for a category it does not have
categoryPriority(category) ==
  CASE category = "crisis" -> 10
    [] category = "medical" -> 9
    [] category = "behavioral" -> 7
    [] category = "academic" -> 5
    [] category = "support" -> 6
    [] category = "routine" -> 4
    [] OTHER -> 5

PriorityMarkers == <<"urgent", "emergency", "immediate", "asap">>

\* the priority without the cap at 10
calculatePriorityUncapped(category, content) ==
  IF regexTest(content, PriorityMarkers, TRUE)
  THEN categoryPriority(category) + 2
  ELSE categoryPriority(category)

\* calculatePriority(category, content)
calculatePriority(category, content) ==
  LET priority == categoryPriority(category)
  IN  IF regexTest(content, PriorityMarkers, TRUE)
      THEN min(10, priority + 2)
      ELSE priority

\* one element of the map in processAutismInformation bar its id; an input
\* item has keywords or the field hasKeywords FALSE
processFields(item) ==
  [category |-> item.category,
   content |-> item.content,
   keywords |-> IF item.hasKeywords
                THEN item.keywords ELSE extractKeywords(item.content),
   responses |-> generateResponses(item.content, item.category),
   priority |-> calculatePriority(item.category, item.content)]

withId(fields, id) ==
  [id |-> id, category |-> fields.category, content |-> fields.content,
   keywords |-> fields.keywords, responses |-> fields.responses,
   priority |-> fields.priority]

\* the element for the k-th input item of call c
processItem(c, k, item) == withId(processFields(item), randomUUID(c, "item", k))

processItems(c, data) == [k \in 1..Len(data) |-> processItem(c, k, data[k])]

----------------------------------------------------------------------------
(* The orchestrator: what one analysis returns                             *)

\* `content.toLowerCase()` at the head of performAnalysis raises a TypeError
\* when the caller passed something that is no string
analysisRaises(content) == content.kind # "string"

\* performAnalysis up to the call of getSuggestedResponse, for a string:
\*   text = content.toLowerCase(); intents; entities; sentiment; urgencyScore
stepsGiven(text, intents, entities) ==
  [intents |-> intents, entities |-> entities,
   sentiment |-> analyzeSentiment(text),
   urgencyScore |-> calculateUrgencyScore(text, intents, entities)]

stepsOnText(content, text) ==
  stepsGiven(text, recognizeIntents(text), extractEntities(content))

analysisSteps(content) == stepsOnText(content, toLowerCase(content))

\* a result object whose action list is kept between calls and never reset
assembleAnalysisAccumulating(steps, context, suggested) ==
  [intents |-> steps.intents,
   entities |-> steps.entities,
   sentiment |-> steps.sentiment,
   urgencyScore |-> steps.urgencyScore,
   suggestedResponse |-> IF suggested = JsNull THEN JsUndefined ELSE suggested,
   requiredActions |->
     (IF completion.op = "analyze" /\ completion.outcome = "returned"
      THEN IF "requiredActions" \in DOMAIN completion.value.value
           THEN completion.value.value.requiredActions
           ELSE << >>
      ELSE << >>)
     \o determineRequiredActions(steps.intents, steps.entities, steps.urgencyScore)]

\* an analysis that scores a parent's message one point higher
assembleAnalysisByRole(steps, context, suggested) ==
  LET urgencyScore ==
        IF context.given /\ context.senderRole = "parent"
        THEN min(10, steps.urgencyScore + 1)
        ELSE steps.urgencyScore
      requiredActions == determineRequiredActions(steps.intents, steps.entities, urgencyScore)
  IN  [intents |-> steps.intents,
       entities |-> steps.entities,
       sentiment |-> steps.sentiment,
       urgencyScore |-> urgencyScore,
       suggestedResponse |-> IF suggested = JsNull THEN JsUndefined ELSE suggested,
       requiredActions |-> requiredActions]

\* the object performAnalysis returns; steps is what analysisSteps gave and
\* suggested what the awaited getSuggestedResponse gave, JsUndefined when it
\* was not called
assembleAnalysis(steps, context, suggested) ==
  LET requiredActions ==
        determineRequiredActions(steps.intents, steps.entities, steps.urgencyScore)
  IN  [intents |-> steps.intents,
       entities |-> steps.entities,
       sentiment |-> steps.sentiment,
       urgencyScore |-> steps.urgencyScore,
       suggestedResponse |-> IF suggested = JsNull THEN JsUndefined ELSE suggested,
       requiredActions |-> requiredActions]

\* an orchestrator that, when no intent was recognized, still looks the
\* entities up in the catalog
performAnalysisFromAlwaysRetrieving(steps, kb, context) ==
  assembleAnalysis(steps, context,
    IF Len(steps.intents) > 0
    THEN retrieveResponse(kb, steps.intents[1], steps.entities)
    ELSE retrieveResponse(kb, [type |-> "general", confidence |-> 50, category |-> "general"],
                          steps.entities))

\* performAnalysis from the suggested response on, steps being what the
\* lines before gave:
\*   intents.length > 0 ? await this.getSuggestedResponse(intents[0], ...) : undefined
\* kb is the catalog getSuggestedResponse finds when it resumes
performAnalysisFrom(steps, kb, context) ==
  assembleAnalysis(steps, context,
    IF Len(steps.intents) > 0
    THEN retrieveResponse(kb, steps.intents[1], steps.entities)
    ELSE JsUndefined)

\* performAnalysis(content, context) of a string when no other call runs
\* while it awaits getSuggestedResponse
performAnalysis(kb, content, context) ==
  performAnalysisFrom(analysisSteps(content), kb, context)

\* a fallback that keeps the partial work of the failed analysis
FallbackAnalysisPartial ==
  [intents |-> << >>, entities |-> << >>, sentiment |-> "neutral", urgencyScore |-> 0]

\* the object literal of the catch block of analyzeMessage
FallbackAnalysis ==
  [intents |-> << >>, entities |-> << >>, sentiment |-> "neutral", urgencyScore |-> 5]

\* analyzeMessage with a catch block that rethrows
analyzeMessageOutcomeRethrows(raised, analysis) ==
  IF raised
  THEN [outcome |-> "thrown", result |-> [kind |-> "none"]]
  ELSE [outcome |-> "returned", result |-> [kind |-> "analysis", value |-> analysis]]

\* try { ... return analysis } catch { ... return basic analysis }
analyzeMessageOutcome(raised, analysis) ==
  IF raised
  THEN [outcome |-> "returned", result |-> [kind |-> "analysis", value |-> FallbackAnalysis]]
  ELSE [outcome |-> "returned", result |-> [kind |-> "analysis", value |-> analysis]]

----------------------------------------------------------------------------
(* Bounds and inputs                                                       *)

\* number of calls of the service in one behaviour; all may overlap
MaxCalls == 2
\* longest batch handed to one ingest call
MaxBatch == 2

Calls == 1..MaxCalls

MeltdownText == "The student is having a meltdown and needs immediate help"
ProgressText == "Everything went well today, great progress with communication"

Texts == {
  MeltdownText,
  ProgressText,
  "Student seems overwhelmed by noise in the classroom",
  "Need advice on managing repetitive behaviors during lessons",
  "He is stimming again, stay calm",
  "HELP NOW",
  "Urgent: medication needed ASAP, he is in pain and angry",
  "A helpful and unhurt student",
  "He got hurt at recess",
  "Lunch schedule changed",
  "He is tired after lunch",
  "" }

\* analysisSteps of every text, computed once
stepsOf == [t \in Texts |-> analysisSteps(t)]

NotAString == [kind |-> "undefined"]
Contents == {[kind |-> "string", value |-> t] : t \in Texts} \cup {NotAString}

NoContext == [given |-> FALSE]
\* the optional second argument of analyzeMessage
Contexts == {
  NoContext,
  [given |-> TRUE, studentId |-> "student-1", senderRole |-> "parent",
   previousMessages |-> << "He had a meltdown yesterday, please help" >>],
  [given |-> TRUE, studentId |-> "student-2", senderRole |-> "teacher",
   previousMessages |-> << >>] }

\* what a caller hands to processAutismInformation
InputItems == {
  [content |-> "Urgent: allergy action plan", category |-> "medical",
   hasKeywords |-> FALSE, keywords |-> << >>],
  [content |-> "Quiet corner", category |-> "sensory",
   hasKeywords |-> TRUE, keywords |-> << "stimming" >>] }

RECURSIVE seqsUpTo(_, _)
seqsUpTo(S, n) ==
  IF n = 0 THEN {<< >>}
  ELSE LET shorter == seqsUpTo(S, n - 1)
       IN  shorter \cup {Append(q, x) : q \in {r \in shorter : Len(r) = n - 1}, x \in S}

Batches == seqsUpTo(InputItems, MaxBatch)

\* processFields of every input item, computed once
fieldsOf == [item \in InputItems |-> processFields(item)]

\* arguments of a direct getSuggestedResponse call
RetrieveArgs == {
  [intent |-> [type |-> "behavior_report", confidence |-> 80, category |-> "behavioral"],
   entities |-> << [type |-> "behavior", value |-> "Stimming a lot", confidence |-> 80,
                    start |-> 0, end |-> 14] >>] }

\* the catalog an earlier session left in the store: its seed items and one
\* ingested item
PriorCatalog ==
  defaultKnowledge(0) \o
  processItems(0, << [content |-> "Headache plan: rest in a quiet room", category |-> "medical",
                      hasKeywords |-> FALSE, keywords |-> << >>] >>)

KvAbsent == [present |-> FALSE, value |-> << >>]
KvValue(v) == [present |-> TRUE, value |-> v]

----------------------------------------------------------------------------
(* State tuple and initial state                                         *)

vars == << initialized, knowledgeBase, store, storeAtStart, op, pc, arg, io,
           outcome, failedAt, calledReady, sizeAtCall, completion, previous, fnIn, fnOut >>

fnVars == << fnIn, fnOut >>

NoValue == [kind |-> "none"]

NoCompletion == [call |-> 0, op |-> "none", arg |-> NoValue, outcome |-> "pending",
                 value |-> NoValue, catalog |-> << >>]

\* the state after `new MLService()`, no call made
Constructed ==
  /\ initialized = FALSE
  /\ knowledgeBase = << >>
  /\ op = [c \in Calls |-> "none"]
  /\ pc = [c \in Calls |-> "idle"]
  /\ arg = [c \in Calls |-> NoValue]
  /\ io = [c \in Calls |-> NoValue]
  /\ outcome = [c \in Calls |-> "pending"]
  /\ failedAt = [c \in Calls |-> "none"]
  /\ calledReady = [c \in Calls |-> FALSE]
  /\ sizeAtCall = [c \in Calls |-> 0]
  /\ completion = NoCompletion
  /\ previous = NoCompletion

Init ==
  /\ Constructed
  /\ store \in {KvAbsent, KvValue(PriorCatalog)}
  /\ storeAtStart = store
  /\ fnIn = NoValue
  /\ fnOut = NoValue

----------------------------------------------------------------------------
(* Operations.  A call runs from one await to the next in one step; the    *)
(* store serves a request in a step of its own, so requests of overlapping *)
(* calls are served in any order.  kv.set is handed the catalog as it is   *)
(* when set is called.  The arguments of a call are immutable and first    *)
(* read behind `await this.ensureInitialized()`: they are drawn there.     *)

\* a call is made only after the calls before it (they may still be running)
canCall(c) == pc[c] = "idle" /\ (IF c = 1 THEN TRUE ELSE pc[c - 1] # "idle")

noteCall(c) ==
  /\ calledReady' = [calledReady EXCEPT ![c] = initialized]
  /\ sizeAtCall' = [sizeAtCall EXCEPT ![c] = Len(knowledgeBase)]

\* call c of operation o, made with arguments a, completes: it returns value or
\* throws; catalog is the in-memory catalog as the completing step found it
finish(c, o, a, how, value) ==
  /\ pc' = [pc EXCEPT ![c] = "done"]
  /\ outcome' = [outcome EXCEPT ![c] = how]
  /\ arg' = [arg EXCEPT ![c] = NoValue]
  /\ completion' = [call |-> c, op |-> o, arg |-> a, outcome |-> how, value |-> value,
                    catalog |-> knowledgeBase]
  /\ previous' = completion

keepRunning(c, where) ==
  /\ pc' = [pc EXCEPT ![c] = where]
  /\ UNCHANGED << outcome, completion, previous >>

\* initialize() that remembers a failed attempt and does not load again
initializeEntryLatched(c, whenInitialized) ==
  IF initialized \/ (\E d \in Calls : failedAt[d] \in {"load", "seed"})
  THEN whenInitialized
  ELSE keepRunning(c, "get_req") /\ UNCHANGED arg

\* initialize() without the `if (this.initialized) return` guard
initializeEntryUnguarded(c, whenInitialized) ==
  keepRunning(c, "get_req") /\ UNCHANGED arg

\* initialize() up to its first await: return at once when initialized,
\* else call kv.get
initializeEntry(c, whenInitialized) ==
  IF initialized
  THEN whenInitialized
  ELSE keepRunning(c, "get_req") /\ UNCHANGED arg

\* what follows a successful initialize(): initialize itself returns, the
\* other operations go on behind `await this.ensureInitialized()`
afterInitialize(c) ==
  IF op[c] = "initialize"
  THEN finish(c, op[c], NoValue, "returned", NoValue)
  ELSE keepRunning(c, "ready") /\ UNCHANGED arg

\* initialize()
CallInitialize(c) ==
  /\ canCall(c)
  /\ noteCall(c)
  /\ op' = [op EXCEPT ![c] = "initialize"]
  /\ initializeEntry(c, finish(c, "initialize", NoValue, "returned", NoValue))
  /\ UNCHANGED << initialized, knowledgeBase, store, storeAtStart, io, failedAt, fnVars >>

\* ensureInitialized() that loads the catalog again on every call
ensureInitializedReloading(c) == keepRunning(c, "get_req") /\ UNCHANGED arg

\* ensureInitialized(): `if (!this.initialized) await this.initialize()`
ensureInitialized(c) == initializeEntry(c, keepRunning(c, "ready") /\ UNCHANGED arg)

\* analyzeMessage(content, context) up to `await this.ensureInitialized()`
CallAnalyze(c) ==
  /\ canCall(c)
  /\ noteCall(c)
  /\ op' = [op EXCEPT ![c] = "analyze"]
  /\ ensureInitialized(c)
  /\ UNCHANGED << initialized, knowledgeBase, store, storeAtStart, io, failedAt, fnVars >>

\* processAutismInformation(data) up to `await this.ensureInitialized()`
CallIngest(c) ==
  /\ canCall(c)
  /\ noteCall(c)
  /\ op' = [op EXCEPT ![c] = "ingest"]
  /\ ensureInitialized(c)
  /\ UNCHANGED << initialized, knowledgeBase, store, storeAtStart, io, failedAt, fnVars >>

\* getSuggestedResponse(intent, entities) up to `await this.ensureInitialized()`
CallGetSuggestedResponse(c) ==
  /\ canCall(c)
  /\ noteCall(c)
  /\ op' = [op EXCEPT ![c] = "getSuggestedResponse"]
  /\ ensureInitialized(c)
  /\ UNCHANGED << initialized, knowledgeBase, store, storeAtStart, io, failedAt, fnVars >>

\* spark.kv.get answers: the value stored at that moment
KvGetAnswers(c) ==
  /\ pc[c] = "get_req"
  /\ io' = [io EXCEPT ![c] = [kind |-> "value", data |-> store]]
  /\ pc' = [pc EXCEPT ![c] = "get_resp"]
  /\ UNCHANGED << initialized, knowledgeBase, store, storeAtStart, op, arg,
                  outcome, failedAt, completion, previous, calledReady, sizeAtCall, fnVars >>

\* spark.kv.get fails
KvGetFails(c) ==
  /\ pc[c] = "get_req"
  /\ io' = [io EXCEPT ![c] = [kind |-> "error"]]
  /\ pc' = [pc EXCEPT ![c] = "get_resp"]
  /\ UNCHANGED << initialized, knowledgeBase, store, storeAtStart, op, arg,
                  outcome, failedAt, completion, previous, calledReady, sizeAtCall, fnVars >>

\* a store that refuses a stale write: it keeps the longer catalog
KvSetAnswersKeepingLonger(c) ==
  /\ pc[c] \in {"seed_req", "save_req"}
  /\ store' = IF store.present /\ Len(store.value) >= Len(io[c].data)
              THEN store
              ELSE KvValue(io[c].data)
  /\ io' = [io EXCEPT ![c] = [kind |-> "ack"]]
  /\ pc' = [pc EXCEPT ![c] = IF pc[c] = "seed_req" THEN "seed_resp" ELSE "save_resp"]
  /\ UNCHANGED << initialized, knowledgeBase, storeAtStart, op, arg,
                  outcome, failedAt, completion, previous, calledReady, sizeAtCall, fnVars >>

\* spark.kv.set is carried out: the store holds the value it was handed
KvSetAnswers(c) ==
  /\ pc[c] \in {"seed_req", "save_req"}
  /\ store' = KvValue(io[c].data)
  /\ io' = [io EXCEPT ![c] = [kind |-> "ack"]]
  /\ pc' = [pc EXCEPT ![c] = IF pc[c] = "seed_req" THEN "seed_resp" ELSE "save_resp"]
  /\ UNCHANGED << initialized, knowledgeBase, storeAtStart, op, arg,
                  outcome, failedAt, completion, previous, calledReady, sizeAtCall, fnVars >>

\* spark.kv.set fails: nothing is stored
KvSetFails(c) ==
  /\ pc[c] \in {"seed_req", "save_req"}
  /\ io' = [io EXCEPT ![c] = [kind |-> "error"]]
  /\ pc' = [pc EXCEPT ![c] = IF pc[c] = "seed_req" THEN "seed_resp" ELSE "save_resp"]
  /\ UNCHANGED << initialized, knowledgeBase, store, storeAtStart, op, arg,
                  outcome, failedAt, completion, previous, calledReady, sizeAtCall, fnVars >>

\* the catch block of initialize rethrows; no caller of initialize inside
\* the service catches, so the operation that awaited it throws too
initializeThrows(c, where) ==
  /\ finish(c, op[c], NoValue, "thrown", NoValue)
  /\ failedAt' = [failedAt EXCEPT ![c] = where]

\* initialize() resumes after kv.get:
\*   this.knowledgeBase = (await get) || []
\*   if (length === 0) await this.initializeDefaultKnowledge()  -- up to its kv.set
\*   this.initialized = true
InitializeLoaded(c) ==
  /\ pc[c] = "get_resp"
  /\ IF io[c].kind = "error"
     THEN /\ initializeThrows(c, "load")
          /\ io' = [io EXCEPT ![c] = NoValue]
          /\ UNCHANGED << initialized, knowledgeBase >>
     ELSE LET loaded == IF io[c].data.present THEN io[c].data.value ELSE << >>
          IN  IF Len(loaded) = 0
              THEN /\ knowledgeBase' = defaultKnowledge(c)
                   /\ io' = [io EXCEPT ![c] = [kind |-> "write", data |-> defaultKnowledge(c)]]
                   /\ keepRunning(c, "seed_req")
                   /\ UNCHANGED << initialized, failedAt, arg >>
              ELSE /\ knowledgeBase' = loaded
                   /\ initialized' = TRUE
                   /\ io' = [io EXCEPT ![c] = NoValue]
                   /\ afterInitialize(c)
                   /\ UNCHANGED failedAt
  /\ UNCHANGED << store, storeAtStart, op, calledReady, sizeAtCall, fnVars >>

\* initialize() resumes after the kv.set of initializeDefaultKnowledge
InitializeSeeded(c) ==
  /\ pc[c] = "seed_resp"
  /\ io' = [io EXCEPT ![c] = NoValue]
  /\ IF io[c].kind = "error"
     THEN /\ initializeThrows(c, "seed")
          /\ UNCHANGED initialized
     ELSE /\ initialized' = TRUE
          /\ afterInitialize(c)
          /\ UNCHANGED failedAt
  /\ UNCHANGED << knowledgeBase, store, storeAtStart, op, calledReady, sizeAtCall, fnVars >>

\* analyzeMessage resumes behind ensureInitialized and runs performAnalysis
\* up to `await this.getSuggestedResponse(...)`, which suspends in its own
\* ensureInitialized; with no intent, or when the analysis raises, it
\* returns without reading the catalog
AnalyzeRuns(c, content, context) ==
  /\ pc[c] = "ready" /\ op[c] = "analyze"
  /\ LET a == [content |-> content, context |-> context]
         raised == analysisRaises(content)
     IN  IF raised
         THEN LET r == analyzeMessageOutcome(TRUE, FallbackAnalysis)
              IN  finish(c, op[c], a, r.outcome, r.result)
         ELSE LET steps == stepsOf[content.value]
              IN  IF Len(steps.intents) > 0
                  THEN /\ keepRunning(c, "retrieve")
                       /\ arg' = [arg EXCEPT ![c] = a]
                  ELSE LET r == analyzeMessageOutcome(FALSE,
                                  performAnalysisFrom(steps, knowledgeBase, context))
                       IN  finish(c, op[c], a, r.outcome, r.result)
  /\ UNCHANGED << initialized, knowledgeBase, store, storeAtStart, op, io,
                  failedAt, calledReady, sizeAtCall, fnVars >>

\* a retrieval that sorts the catalog itself, not the filtered copy
AnalyzeRetrievesSortingInPlace(c) ==
  /\ pc[c] = "retrieve"
  /\ LET steps == stepsOf[arg[c].content.value]
         r == analyzeMessageOutcome(FALSE,
                performAnalysisFrom(steps, knowledgeBase, arg[c].context))
     IN  finish(c, op[c], arg[c], r.outcome, r.result)
  /\ knowledgeBase' = sortByPriority(knowledgeBase)
  /\ UNCHANGED << initialized, store, storeAtStart, op, io,
                  failedAt, calledReady, sizeAtCall, fnVars >>

\* the getSuggestedResponse inside performAnalysis resumes (initialized is
\* true there): it reads the catalog as it is now; the rest of
\* performAnalysis and analyzeMessage reads no shared state
AnalyzeRetrieves(c) ==
  /\ pc[c] = "retrieve"
  /\ LET steps == stepsOf[arg[c].content.value]
         r == analyzeMessageOutcome(FALSE,
                performAnalysisFrom(steps, knowledgeBase, arg[c].context))
     IN  finish(c, op[c], arg[c], r.outcome, r.result)
  /\ UNCHANGED << initialized, knowledgeBase, store, storeAtStart, op, io,
                  failedAt, calledReady, sizeAtCall, fnVars >>

\* an ingest that hands kv.set the new items only, not the whole catalog
IngestRunsDelta(c, data) ==
  /\ pc[c] = "ready" /\ op[c] = "ingest"
  /\ LET processedItems ==
           [k \in 1..Len(data) |-> withId(fieldsOf[data[k]], randomUUID(c, "item", k))]
     IN  /\ knowledgeBase' = knowledgeBase \o processedItems
         /\ io' = [io EXCEPT ![c] = [kind |-> "write", data |-> processedItems]]
  /\ arg' = [arg EXCEPT ![c] = [data |-> data]]
  /\ keepRunning(c, "save_req")
  /\ UNCHANGED << initialized, store, storeAtStart, op, failedAt, calledReady, sizeAtCall, fnVars >>

\* processAutismInformation resumes behind ensureInitialized: map, push,
\* call kv.set
IngestRuns(c, data) ==
  /\ pc[c] = "ready" /\ op[c] = "ingest"
  /\ LET processedItems ==
           [k \in 1..Len(data) |-> withId(fieldsOf[data[k]], randomUUID(c, "item", k))]
     IN  /\ knowledgeBase' = knowledgeBase \o processedItems
         /\ io' = [io EXCEPT ![c] = [kind |-> "write", data |-> knowledgeBase \o processedItems]]
  /\ arg' = [arg EXCEPT ![c] = [data |-> data]]
  /\ keepRunning(c, "save_req")
  /\ UNCHANGED << initialized, store, storeAtStart, op, failedAt, calledReady, sizeAtCall, fnVars >>

\* an ingest whose catch block logs the failed write and returns
IngestSavedSilently(c) ==
  /\ pc[c] = "save_resp"
  /\ io' = [io EXCEPT ![c] = NoValue]
  /\ finish(c, op[c], arg[c], "returned", NoValue)
  /\ UNCHANGED failedAt
  /\ UNCHANGED << initialized, knowledgeBase, store, storeAtStart, op, calledReady, sizeAtCall, fnVars >>

\* processAutismInformation resumes after kv.set: returns, or rethrows
IngestSaved(c) ==
  /\ pc[c] = "save_resp"
  /\ io' = [io EXCEPT ![c] = NoValue]
  /\ IF io[c].kind = "error"
     THEN /\ finish(c, op[c], arg[c], "thrown", NoValue)
          /\ failedAt' = [failedAt EXCEPT ![c] = "save"]
     ELSE /\ finish(c, op[c], arg[c], "returned", NoValue)
          /\ UNCHANGED failedAt
  /\ UNCHANGED << initialized, knowledgeBase, store, storeAtStart, op, calledReady, sizeAtCall, fnVars >>

\* a direct getSuggestedResponse resumes behind ensureInitialized
RetrieveRuns(c, a) ==
  /\ pc[c] = "ready" /\ op[c] = "getSuggestedResponse"
  /\ finish(c, op[c], a, "returned",
            [kind |-> "response",
             value |-> retrieveResponse(knowledgeBase, a.intent, a.entities)])
  /\ UNCHANGED << initialized, knowledgeBase, store, storeAtStart, op, io,
                  failedAt, calledReady, sizeAtCall, fnVars >>

Next ==
  \E c \in Calls :
    \/ CallInitialize(c)
    \/ CallAnalyze(c)
    \/ CallIngest(c)
    \/ CallGetSuggestedResponse(c)
    \/ KvGetAnswers(c)
    \/ KvGetFails(c)
    \/ KvSetAnswers(c)
    \/ KvSetFails(c)
    \/ InitializeLoaded(c)
    \/ InitializeSeeded(c)
    \/ \E content \in Contents, context \in Contexts : AnalyzeRuns(c, content, context)
    \/ AnalyzeRetrieves(c)
    \/ \E data \in Batches : IngestRuns(c, data)
    \/ IngestSaved(c)
    \/ \E a \in RetrieveArgs : RetrieveRuns(c, a)

Spec == Init /\ [][Next]_vars

----------------------------------------------------------------------------
(* The scorer and the action determiner as pure functions of arbitrary     *)
(* lists: the inputs are drawn at Init and one step applies the function.  *)

\* longest intent list and longest entity list drawn
MaxIntents == 2
MaxEntities == 2
\* length of the adversarial list of urgency entities
ManyEntities == 100

SampleIntents == {
  [type |-> "crisis_alert", confidence |-> 90, category |-> "crisis"],
  [type |-> "behavior_report", confidence |-> 80, category |-> "behavioral"],
  [type |-> "medical_concern", confidence |-> 85, category |-> "medical"],
  [type |-> "academic_update", confidence |-> 70, category |-> "academic"],
  [type |-> "support_request", confidence |-> 75, category |-> "support"],
  [type |-> "routine_update", confidence |-> 60, category |-> "routine"] }

SampleEntities == {
  [type |-> "urgency", value |-> "NOW", confidence |-> 90, start |-> 5, end |-> 8],
  [type |-> "emotion", value |-> "ANGRY", confidence |-> 80, start |-> 0, end |-> 5],
  [type |-> "emotion", value |-> "overwhelmed", confidence |-> 80, start |-> 14, end |-> 25],
  [type |-> "emotion", value |-> "happy", confidence |-> 80, start |-> 0, end |-> 5],
  [type |-> "time", value |-> "now", confidence |-> 70, start |-> 5, end |-> 8] }

ManyUrgencyEntities ==
  [n \in 1..ManyEntities |->
     [type |-> "urgency", value |-> "urgent", confidence |-> 90,
      start |-> 7 * (n - 1), end |-> 7 * (n - 1) + 6]]

IntentLists == seqsUpTo(SampleIntents, MaxIntents)
EntityLists == seqsUpTo(SampleEntities, MaxEntities) \cup {ManyUrgencyEntities}

\* scores handed to determineRequiredActions
ScoreInputs == 0..10

\* texts handed to the matchers
AllRulesText == "Urgent: he is stimming, in pain, no progress; need help with the lunch schedule"
FnTexts == {
  MeltdownText,
  ProgressText,
  AllRulesText,
  "HELP NOW",
  "A helpful and unhurt student",
  "Acting out after lunch, what should we do",
  "good good bad",
  "great great great, terrible issue",
  "now now NOW, quickly",
  "Happy, sad and Angry today; calm tomorrow morning",
  "unhappy and upsetting problems",
  "Emergency",
  "nowhere to go",
  "Tired and in pain, he cannot focus",
  "Need advice on his reading homework",
  "Student seems overwhelmed by noise in the classroom",
  "He is tired after lunch",
  "Angry now, calm by lunch",
  "" }

\* longest catalog handed to the retrieval
MaxCatalog == 3

\* catalog items as ingest and seeding create them, before they get their id
SampleItems == {
  [category |-> "behavioral", content |-> "Sensory seeking behaviors",
   keywords |-> << "stimming" >>, responses |-> << "Consider sensory tools.", "Plan breaks." >>,
   priority |-> 8],
  [category |-> "behavioral", content |-> "Manage challenging behaviors",
   keywords |-> << "Triggers", "noise" >>, responses |-> << "Identify the triggers." >>,
   priority |-> 8],
  [category |-> "medical", content |-> "Monitor for medical needs",
   keywords |-> << "PECS" >>, responses |-> << "Contact the school nurse." >>,
   priority |-> 9],
  [category |-> "sensory", content |-> "Sensory overload management",
   keywords |-> << "noise", "lights" >>, responses |-> << "Reduce the noise." >>,
   priority |-> 5] }

catalogOf(fields) == [n \in 1..Len(fields) |-> withId(fields[n], randomUUID(0, "item", n))]

Catalogs == {catalogOf(fields) : fields \in seqsUpTo(SampleItems, MaxCatalog)}

RetrieveIntents == {i \in SampleIntents : i.category \in {"behavioral", "medical", "routine"}}

RetrieveEntityLists == {
  << >>,
  << [type |-> "emotion", value |-> "calm", confidence |-> 80, start |-> 0, end |-> 4] >>,
  << [type |-> "behavior", value |-> "Loud NOISE", confidence |-> 80, start |-> 0, end |-> 10] >>,
  << [type |-> "time", value |-> "today", confidence |-> 70, start |-> 0, end |-> 5],
     [type |-> "behavior", value |-> "uses pecs cards", confidence |-> 80, start |-> 9, end |-> 24] >> }

\* items handed to ingest: categories of the table and others the callers
\* use; with or without a priority of their own, which the type of data
\* does not have and the map does not read
ItemCategories == {"crisis", "medical", "behavioral", "support", "academic", "routine",
                   "sensory", "communication"}
ItemContents == {"Visual schedules", "Urgent: call the parents",
                 "Needs IMMEDIATE care, asap", "urgently needed", "Emergency"}
SuppliedPriorities == {0, 3, 11}

CallerItems ==
  {[content |-> t, category |-> g, hasKeywords |-> TRUE, keywords |-> << "plan" >>,
    hasPriority |-> FALSE] : t \in ItemContents, g \in ItemCategories}
  \cup
  {[content |-> t, category |-> g, hasKeywords |-> TRUE, keywords |-> << "plan" >>,
    hasPriority |-> TRUE, priority |-> p] :
     t \in ItemContents, g \in ItemCategories, p \in SuppliedPriorities}

\* catalogs an analysis finds in memory: the seed set, and the catalog of
\* an earlier session
AnalysisCatalogs == {defaultKnowledge(0), PriorCatalog}

FnInputs ==
  {[kind |-> "item", item |-> i] : i \in CallerItems}
  \cup
  {[kind |-> "retrieve", catalog |-> kb, intent |-> i, entities |-> e] :
     kb \in Catalogs, i \in RetrieveIntents, e \in RetrieveEntityLists}
  \cup
  {[kind |-> "score", intents |-> i, entities |-> e] :
     i \in IntentLists, e \in EntityLists}
  \cup
  {[kind |-> "actions", intents |-> i, urgencyScore |-> u] :
     i \in IntentLists, u \in ScoreInputs}
  \cup
  {[kind |-> k, text |-> t] : k \in {"intents", "entities", "sentiment"}, t \in FnTexts}
  \cup
  {[kind |-> "analysis", catalog |-> kb, text |-> t, context |-> x] :
     kb \in AnalysisCatalogs, t \in FnTexts, x \in Contexts}

InitFn ==
  /\ Constructed
  /\ store = KvAbsent
  /\ storeAtStart = store
  /\ fnIn \in FnInputs
  /\ fnOut = NoValue

serviceVars == << initialized, knowledgeBase, store, storeAtStart, op, pc, arg, io,
                  outcome, failedAt, calledReady, sizeAtCall, completion, previous >>

\* calculateUrgencyScore is applied; its text parameter is not read
ScoreApplies ==
  /\ fnIn.kind = "score" /\ fnOut = NoValue
  /\ fnOut' = [kind |-> "score",
               value |-> calculateUrgencyScore("", fnIn.intents, fnIn.entities)]
  /\ UNCHANGED << serviceVars, fnIn >>

\* determineRequiredActions is applied; its entities parameter is not read
ActionsApplies ==
  /\ fnIn.kind = "actions" /\ fnOut = NoValue
  /\ fnOut' = [kind |-> "actions",
               value |-> determineRequiredActions(fnIn.intents, << >>, fnIn.urgencyScore)]
  /\ UNCHANGED << serviceVars, fnIn >>

\* performAnalysis lowercases the content and applies recognizeIntents
RecognizeApplies ==
  /\ fnIn.kind = "intents" /\ fnOut = NoValue
  /\ fnOut' = [kind |-> "intents", value |-> recognizeIntents(toLowerCase(fnIn.text))]
  /\ UNCHANGED << serviceVars, fnIn >>

\* performAnalysis applies extractEntities to the content as it was written
ExtractApplies ==
  /\ fnIn.kind = "entities" /\ fnOut = NoValue
  /\ fnOut' = [kind |-> "entities", value |-> extractEntities(fnIn.text)]
  /\ UNCHANGED << serviceVars, fnIn >>

\* performAnalysis lowercases the content and applies analyzeSentiment
SentimentApplies ==
  /\ fnIn.kind = "sentiment" /\ fnOut = NoValue
  /\ fnOut' = [kind |-> "sentiment", value |-> analyzeSentiment(toLowerCase(fnIn.text))]
  /\ UNCHANGED << serviceVars, fnIn >>

\* getSuggestedResponse behind its ensureInitialized, on the catalog given
RetrieveApplies ==
  /\ fnIn.kind = "retrieve" /\ fnOut = NoValue
  /\ fnOut' = [kind |-> "response",
               value |-> retrieveResponse(fnIn.catalog, fnIn.intent, fnIn.entities)]
  /\ UNCHANGED << serviceVars, fnIn >>

\* the function mapped over data in processAutismInformation, bar the id
MapApplies ==
  /\ fnIn.kind = "item" /\ fnOut = NoValue
  /\ fnOut' = [kind |-> "item", value |-> processFields(fnIn.item)]
  /\ UNCHANGED << serviceVars, fnIn >>

\* performAnalysis is applied to a string on the catalog given, no other
\* call running meanwhile
PerformApplies ==
  /\ fnIn.kind = "analysis" /\ fnOut = NoValue
  /\ fnOut' = [kind |-> "analysis",
               value |-> performAnalysis(fnIn.catalog, fnIn.text, fnIn.context)]
  /\ UNCHANGED << serviceVars, fnIn >>

NextFn ==
  \/ PerformApplies
  \/ MapApplies
  \/ RetrieveApplies
  \/ ScoreApplies
  \/ ActionsApplies
  \/ RecognizeApplies
  \/ ExtractApplies
  \/ SentimentApplies

SpecFn == InitFn /\ [][NextFn]_vars

----------------------------------------------------------------------------
(* Properties of the service (checked under Spec)                          *)

InitAccess == {"get_req", "get_resp", "seed_req", "seed_resp"}

\* call c resumes in this step from a failed load or a failed seed write
initFails(c) ==
  IF pc[c] \in {"get_resp", "seed_resp"}
  THEN io[c].kind = "error" /\ pc'[c] # pc[c]
  ELSE FALSE

\* call c resumes in this step from a load of a non-empty catalog or from
\* an acknowledged seed write
initSucceeds(c) ==
  IF pc[c] = "get_resp"
  THEN IF io[c].kind = "value"
       THEN io[c].data.present /\ Len(io[c].data.value) > 0 /\ pc'[c] # pc[c]
       ELSE FALSE
  ELSE IF pc[c] = "seed_resp"
       THEN io[c].kind = "ack" /\ pc'[c] # pc[c]
       ELSE FALSE

\* call c is made in this step
called(c) == pc[c] = "idle" /\ pc'[c] # "idle"

\* the last completed call is an analyze whose pipeline raised
fallbackReturned ==
  /\ completion.op = "analyze"
  /\ IF "content" \in DOMAIN completion.arg
     THEN completion.arg.content.kind # "string"
     ELSE FALSE

\* C1 as stated: no analyze call ever completes by throwing, whatever the
\* content and whatever the store does, a failed load or seed write included.
C1_AnalyzeNeverThrows ==
  \A c \in Calls : op[c] = "analyze" => outcome[c] # "thrown"

\* C1 amended: a completed analyze call has returned an analysis result,
\* also when its pipeline raised; the only exception it propagates is the
\* failed catalog load or seed write of the initialization it ran because
\* the service was Uninitialized when it was called.
C1_AnalyzeThrowsOnlyInitFailure ==
  /\ \A c \in Calls : (op[c] = "analyze" /\ pc[c] = "done") =>
       \/ outcome[c] = "returned" /\ failedAt[c] = "none"
       \/ outcome[c] = "thrown" /\ failedAt[c] \in {"load", "seed"} /\ ~calledReady[c]
  /\ (completion.op = "analyze" /\ completion.outcome = "returned") =>
       completion.value.kind = "analysis"
  /\ fallbackReturned => completion.outcome = "returned"

\* one analyze call threw the failed load, a later one returned although
\* its pipeline raised
C1_Witness ==
  /\ op[1] = "analyze" /\ outcome[1] = "thrown" /\ failedAt[1] = "load"
  /\ fallbackReturned /\ completion.call = 2 /\ completion.outcome = "returned"

\* analyze call c completes in this step and its pipeline raised
fallbackStep(c) ==
  /\ op[c] = "analyze" /\ pc[c] = "ready" /\ pc'[c] = "done"
  /\ completion'.call = c
  /\ completion'.arg.content.kind # "string"

\* C2 as stated: when the pipeline raises, analyze returns empty intents,
\* empty entities, sentiment neutral, urgency 5, no suggested response and
\* an empty required-action list, and leaves the catalog and the
\* initialized flag unchanged.
C2_FallbackWithEmptyActions ==
  [][\A c \in Calls : fallbackStep(c) =>
       /\ completion'.outcome = "returned"
       /\ completion'.value.value.intents = << >>
       /\ completion'.value.value.entities = << >>
       /\ completion'.value.value.sentiment = "neutral"
       /\ completion'.value.value.urgencyScore = 5
       /\ IF "suggestedResponse" \in DOMAIN completion'.value.value
          THEN completion'.value.value.suggestedResponse = JsUndefined
          ELSE TRUE
       /\ IF "requiredActions" \in DOMAIN completion'.value.value
          THEN completion'.value.value.requiredActions = << >>
          ELSE FALSE
       /\ knowledgeBase' = knowledgeBase
       /\ initialized' = initialized]_vars

\* C2 amended: when the pipeline raises, analyze returns the fixed fallback
\* of exactly four fields: empty intents, empty entities, sentiment
\* neutral, urgency 5; it carries no suggested response and no
\* required-action list at all; the catalog and the initialized flag are
\* left unchanged.
C2_FallbackOfFourFields ==
  [][\A c \in Calls : fallbackStep(c) =>
       /\ completion'.outcome = "returned"
       /\ DOMAIN completion'.value.value =
            {"intents", "entities", "sentiment", "urgencyScore"}
       /\ completion'.value.value.intents = << >>
       /\ completion'.value.value.entities = << >>
       /\ completion'.value.value.sentiment = "neutral"
       /\ completion'.value.value.urgencyScore = 5
       /\ knowledgeBase' = knowledgeBase
       /\ initialized' = initialized]_vars

\* an analyze call on a loaded catalog has returned the fallback
C2_Witness ==
  /\ fallbackReturned /\ completion.outcome = "returned"
  /\ completion.value.value.urgencyScore = 5
  /\ initialized /\ Len(knowledgeBase) > 0

\* C3: a failed load or seed write is thrown to the caller and leaves the
\* service Uninitialized; the failure is not latched: a call of initialize,
\* analyze or ingest made while Uninitialized attempts the load, and an
\* attempt that succeeds moves the service to Ready.
C3_InitFailureNotLatched ==
  [][\A c \in Calls :
       /\ initFails(c) =>
            /\ pc'[c] = "done" /\ outcome'[c] = "thrown"
            /\ failedAt'[c] = (IF pc[c] = "get_resp" THEN "load" ELSE "seed")
            /\ initialized' = initialized
       /\ (called(c) /\ ~initialized /\ op'[c] \in {"initialize", "analyze", "ingest"}) =>
            (pc'[c] = "get_req" /\ ~initialized')
       /\ initSucceeds(c) => initialized'
       /\ (~initialized /\ initialized') => initSucceeds(c) \/ pc'[c] = pc[c]]_vars

\* the first call threw its failed load, the second loaded again and the
\* service is Ready
C3_Witness ==
  /\ outcome[1] = "thrown" /\ failedAt[1] \in {"load", "seed"}
  /\ outcome[2] = "returned" /\ ~calledReady[2]
  /\ initialized

\* C4: once the service is Ready it stays Ready, and a call of initialize
\* or of an operation that runs ensureInitialized made from then on goes on
\* without a store request and leaves store and catalog as they are;
\* initialize itself returns at once.
C4_InitializeIdempotent ==
  [][/\ initialized => initialized'
     /\ \A c \in Calls :
          /\ (called(c) /\ initialized) =>
               /\ pc'[c] = (IF op'[c] = "initialize" THEN "done" ELSE "ready")
               /\ (op'[c] = "initialize" => outcome'[c] = "returned")
               /\ io' = io /\ store' = store /\ knowledgeBase' = knowledgeBase
          /\ calledReady[c] => pc'[c] \notin InitAccess]_vars

\* initialize was called on the Ready service and has returned
C4_Witness ==
  /\ calledReady[2] /\ op[2] = "initialize" /\ outcome[2] = "returned"
  /\ op[1] = "initialize" /\ outcome[1] = "returned"

categoriesOf(items) == {items[n].category : n \in 1..Len(items)}

StimmingQuery ==
  [intent |-> [type |-> "behavior_report", confidence |-> 80, category |-> "behavioral"],
   entities |-> << [type |-> "behavior", value |-> "hand stimming", confidence |-> 80,
                    start |-> 0, end |-> 13] >>]

\* C5: started on an empty store, once an analyze call has returned, the
\* catalog holds at least 3 items covering the categories crisis,
\* behavioral and academic, the store holds such a set too, and a
\* behavioral intent with an entity value containing 'stimming' gets a
\* response that is not null.
C5_SeededBeforeFirstResult ==
  (storeAtStart = KvAbsent /\ \E c \in Calls : op[c] = "analyze" /\ outcome[c] = "returned") =>
    /\ Len(knowledgeBase) >= 3
    /\ {"crisis", "behavioral", "academic"} \subseteq categoriesOf(knowledgeBase)
    /\ store.present
    /\ Len(store.value) >= 3
    /\ {"crisis", "behavioral", "academic"} \subseteq categoriesOf(store.value)
    /\ retrieveResponse(knowledgeBase, StimmingQuery.intent, StimmingQuery.entities) # JsNull

\* the first call, an analyze on the empty store, has returned and nothing
\* else was called: catalog and store hold the seed set it created
C5_Witness ==
  /\ storeAtStart = KvAbsent
  /\ op[1] = "analyze" /\ outcome[1] = "returned" /\ pc[2] = "idle"
  /\ knowledgeBase = defaultKnowledge(1)
  /\ store = KvValue(defaultKnowledge(1))

----------------------------------------------------------------------------
(* Properties of the scorer and of the action rules (checked under SpecFn) *)

\* C6: for every list of intents and every list of entities, the list of
\* 100 urgency entities included, the urgency score is an integer from 0
\* to 10.
C6_ScoreInRange ==
  fnOut.kind = "score" => (fnOut.value \in Int /\ fnOut.value >= 0 /\ fnOut.value <= 10)

\* the scorer was applied to the 100 urgency entities
C6_Witness ==
  /\ fnOut.kind = "score"
  /\ fnIn.entities = ManyUrgencyEntities
  /\ fnOut.value = 10

hasCategory(intents, category) == category \in {intents[n].category : n \in 1..Len(intents)}

bonus(applies, points) == IF applies THEN points ELSE 0

urgencyCount(entities) ==
  Cardinality({n \in 1..Len(entities) : entities[n].type = "urgency"})

negativeEmotionCount(entities) ==
  Cardinality({n \in 1..Len(entities) :
    /\ entities[n].type = "emotion"
    /\ toLowerCase(entities[n].value) \in {"angry", "frustrated", "anxious", "overwhelmed"}})

scoreSum(intents, entities) ==
  5 + bonus(hasCategory(intents, "crisis"), 4)
    + bonus(hasCategory(intents, "medical"), 2)
    + bonus(hasCategory(intents, "behavioral"), 1)
    + 2 * urgencyCount(entities)
    + negativeEmotionCount(entities)

\* C7: the urgency score is min(10, 5 + 4 if some intent is crisis + 2 if
\* some intent is medical + 1 if some intent is behavioral + 2 for every
\* urgency entity + 1 for every emotion entity whose value is, in any
\* letter case, angry, frustrated, anxious or overwhelmed).
C7_ScoreFormula ==
  fnOut.kind = "score" =>
    fnOut.value = (IF scoreSum(fnIn.intents, fnIn.entities) < 10
                   THEN scoreSum(fnIn.intents, fnIn.entities) ELSE 10)

\* a medical and a behavioral intent with an upper-case negative emotion:
\* both bonuses and the emotion count, 5 + 2 + 1 + 1
C7_Witness ==
  /\ fnOut.kind = "score"
  /\ hasCategory(fnIn.intents, "medical") /\ hasCategory(fnIn.intents, "behavioral")
  /\ Len(fnIn.entities) = 1 /\ fnIn.entities[1].value = "ANGRY"
  /\ fnOut.value = 9

ruleTags(intents, urgencyScore) == <<
  [applies |-> urgencyScore >= 8, tag |-> "immediate_response_required"],
  [applies |-> hasCategory(intents, "crisis"), tag |-> "notify_crisis_team"],
  [applies |-> hasCategory(intents, "crisis"), tag |-> "document_incident"],
  [applies |-> hasCategory(intents, "medical"), tag |-> "notify_school_nurse"],
  [applies |-> hasCategory(intents, "medical"), tag |-> "contact_parent"],
  [applies |-> hasCategory(intents, "behavioral"), tag |-> "log_behavior_incident"],
  [applies |-> hasCategory(intents, "behavioral"), tag |-> "review_intervention_plan"],
  [applies |-> urgencyScore >= 6, tag |-> "escalate_to_supervisor"] >>

tagsOf(rules) == [n \in 1..Len(rules) |-> rules[n].tag]

\* C8: the required-action list is exactly the tags of the five rules that
\* apply, in rule order: immediate_response_required iff score >= 8; the
\* two crisis tags iff some intent is crisis; the two medical tags iff some
\* intent is medical; the two behavioral tags iff some intent is
\* behavioral; escalate_to_supervisor iff score >= 6.
C8_ActionRules ==
  fnOut.kind = "actions" =>
    fnOut.value =
      tagsOf(SelectSeq(ruleTags(fnIn.intents, fnIn.urgencyScore), LAMBDA r : r.applies))

\* score 6 with a behavioral intent: the behavioral tags, then the escalation
C8_Witness ==
  /\ fnOut.kind = "actions"
  /\ fnIn.urgencyScore = 6
  /\ fnOut.value = << "log_behavior_incident", "review_intervention_plan",
                      "escalate_to_supervisor" >>

----------------------------------------------------------------------------
(* Properties of whole analyses (checked under Spec)                       *)

CrisisTriggers == <<"emergency", "crisis", "help", "urgent", "meltdown", "aggressive",
                    "hurt", "danger">>

\* the text has one of the words as a whole word, in any letter case
hasWord(text, words) == regexTest(text, words, TRUE)

crisisText == [t \in Texts |-> hasWord(t, CrisisTriggers)]
immediateText == [t \in Texts |-> hasWord(t, << "immediate" >>)]
calmText ==
  [t \in Texts |->
     /\ ~hasWord(t, CrisisTriggers)
     /\ ~hasWord(t, MedicalWords)
     /\ ~hasWord(t, BehavioralWords)
     /\ ~hasWord(t, <<"urgent", "immediate", "asap", "emergency", "now", "quickly">>)
     /\ ~hasWord(t, <<"angry", "frustrated", "anxious", "overwhelmed">>)]

\* the last completed call is an analyze that returned the analysis of a text
analyzed ==
  /\ completion.op = "analyze" /\ completion.outcome = "returned"
  /\ completion.arg.content.kind = "string"

analyzedText == completion.arg.content.value
analysis == completion.value.value

\* C9: the analysis of a text with a crisis trigger as a whole word has an
\* intent of category crisis with confidence 0.9, an urgency score of at
\* least 9 and, among its required actions, immediate_response_required,
\* notify_crisis_team and document_incident; an `immediate` in the text is
\* among its entities as an urgency entity.
C9_CrisisAnalysis ==
  analyzed =>
    /\ crisisText[analyzedText] =>
         /\ \E n \in 1..Len(analysis.intents) :
              analysis.intents[n].category = "crisis" /\ analysis.intents[n].confidence = 90
         /\ analysis.urgencyScore >= 9
         /\ {"immediate_response_required", "notify_crisis_team", "document_incident"}
              \subseteq {analysis.requiredActions[n] : n \in 1..Len(analysis.requiredActions)}
    /\ immediateText[analyzedText] =>
         \E n \in 1..Len(analysis.entities) :
           /\ analysis.entities[n].type = "urgency"
           /\ toLowerCase(analysis.entities[n].value) = "immediate"

\* the meltdown message was analysed: crisis intent, `immediate` found at
\* its place as an urgency entity
C9_Witness ==
  /\ analyzed /\ analyzedText = MeltdownText
  /\ analysis.intents[1].category = "crisis"
  /\ analysis.entities = << [type |-> "urgency", value |-> "immediate", confidence |-> 90,
                             start |-> 43, end |-> 52] >>
  /\ analysis.urgencyScore = 10

\* C10: the analysis of a text with no crisis, medical or behavioral
\* trigger, no urgency word and no negative-emotion word has urgency score
\* 5 and an empty required-action list, whatever other intents it has; the
\* progress message has sentiment positive.
C10_CalmAnalysis ==
  analyzed =>
    /\ calmText[analyzedText] =>
         (analysis.urgencyScore = 5 /\ analysis.requiredActions = << >>)
    /\ analyzedText = ProgressText => analysis.sentiment = "positive"

\* the progress message was analysed: an academic intent, score 5, no action
C10_Witness ==
  /\ analyzed /\ analyzedText = ProgressText
  /\ analysis.intents[1].category = "academic"
  /\ analysis.urgencyScore = 5 /\ analysis.requiredActions = << >>
  /\ analysis.sentiment = "positive"

----------------------------------------------------------------------------
(* Properties of the matchers (checked under SpecFn)                       *)

\* the text has the phrase w, in any letter case, with no word character
\* next to it on either side
containsWord(t, w) ==
  \E i \in 1..(Len(t) - Len(w) + 1) :
    /\ toLowerCase(SubSeq(t, i, i + Len(w) - 1)) = w
    /\ (i = 1 \/ SubSeq(t, i - 1, i - 1) \notin WordChars)
    /\ (i + Len(w) - 1 = Len(t) \/ SubSeq(t, i + Len(w), i + Len(w)) \notin WordChars)

containsAny(t, words) == \E w \in words : containsWord(t, w)

CrisisTriggerSet == {"emergency", "crisis", "help", "urgent", "meltdown", "aggressive",
                     "hurt", "danger"}

\* C11: a text with a crisis trigger word as a whole word, in any letter
\* case, gets an intent of category crisis with confidence 0.90; a text
\* without one gets no crisis intent.
C11_CrisisIntent ==
  fnOut.kind = "intents" =>
    IF containsAny(fnIn.text, CrisisTriggerSet)
    THEN \E n \in 1..Len(fnOut.value) :
           fnOut.value[n].category = "crisis" /\ fnOut.value[n].confidence = 90
    ELSE \A n \in 1..Len(fnOut.value) : fnOut.value[n].category # "crisis"

\* the upper-case text got its crisis intent
C11_Witness ==
  /\ fnOut.kind = "intents" /\ fnIn.text = "HELP NOW"
  /\ fnOut.value = << [type |-> "crisis_alert", confidence |-> 90, category |-> "crisis"] >>

RuleTable == <<
  [category |-> "crisis", confidence |-> 90, triggers |-> CrisisTriggerSet],
  [category |-> "behavioral", confidence |-> 80,
   triggers |-> {"behavior", "acting out", "stimming", "tantrum", "disruptive", "calm", "focus"}],
  [category |-> "medical", confidence |-> 85,
   triggers |-> {"medication", "sick", "tired", "pain", "headache", "stomach", "allergy"}],
  [category |-> "academic", confidence |-> 70,
   triggers |-> {"learning", "homework", "assignment", "reading", "math", "progress", "goal"}],
  [category |-> "support", confidence |-> 75,
   triggers |-> {"need help", "support", "assistance", "guidance", "advice", "what should"}],
  [category |-> "routine", confidence |-> 60,
   triggers |-> {"schedule", "routine", "break", "lunch", "transition", "activity"}] >>

categoryAndConfidence(records) ==
  [n \in 1..Len(records) |->
     [category |-> records[n].category, confidence |-> records[n].confidence]]

\* C12: the intents are, in the order crisis, behavioral, medical,
\* academic, support, routine, one intent for each rule whose triggers
\* match and none for the others, each with its fixed confidence; so at
\* most 6 intents of pairwise distinct categories.
C12_IndependentRules ==
  fnOut.kind = "intents" =>
    /\ categoryAndConfidence(fnOut.value) =
         categoryAndConfidence(
           SelectSeq(RuleTable, LAMBDA r : containsAny(fnIn.text, r.triggers)))
    /\ Len(fnOut.value) <= 6
    /\ \A n, m \in 1..Len(fnOut.value) :
         n # m => fnOut.value[n].category # fnOut.value[m].category

\* a text that triggers all six rules got six intents
C12_Witness ==
  /\ fnOut.kind = "intents" /\ fnIn.text = AllRulesText
  /\ Len(fnOut.value) = 6
  /\ fnOut.value[1].category = "crisis" /\ fnOut.value[6].category = "routine"

\* w is a substring of v, letter case aside
substringAnyCase(w, v) ==
  \E i \in 1..(Len(v) - Len(w) + 1) :
    toLowerCase(SubSeq(v, i, i + Len(w) - 1)) = toLowerCase(w)

\* the positions of the catalog items that match the query
matching(kb, intent, entities) ==
  {n \in 1..Len(kb) :
     \/ kb[n].category = intent.category
     \/ \E k \in 1..Len(kb[n].keywords), e \in 1..Len(entities) :
          substringAnyCase(kb[n].keywords[k], entities[e].value)}

\* of the positions M, the one of highest priority, the earliest among equals
bestOf(kb, M) ==
  CHOOSE n \in M :
    \A m \in M : \/ kb[n].priority > kb[m].priority
                 \/ kb[n].priority = kb[m].priority /\ n <= m

\* C13: getSuggestedResponse returns null exactly when no catalog item has
\* the intent's category or a keyword that is, letter case aside, a
\* substring of an entity value; otherwise the first response of the
\* matching item of highest priority, the one inserted first among equals.
C13_Retrieval ==
  fnOut.kind = "response" =>
    IF matching(fnIn.catalog, fnIn.intent, fnIn.entities) = {}
    THEN fnOut.value = JsNull
    ELSE /\ fnOut.value # JsNull
         /\ fnOut.value =
              fnIn.catalog[bestOf(fnIn.catalog,
                matching(fnIn.catalog, fnIn.intent, fnIn.entities))].responses[1]

\* two behavioral items of priority 8 behind an item that does not match:
\* the response is that of the first of the two
C13_Witness ==
  /\ fnOut.kind = "response"
  /\ fnIn.intent.category = "behavioral" /\ fnIn.entities = << >>
  /\ Len(fnIn.catalog) = 3
  /\ fnIn.catalog[1].category = "sensory"
  /\ fnIn.catalog[2].content = "Manage challenging behaviors"
  /\ fnIn.catalog[3].content = "Sensory seeking behaviors"
  /\ fnOut.value = "Identify the triggers."

\* C14: every entity extracted from a text has 0 <= start < end <= length
\* of the text, and the text from start to end is its value; two entities
\* of one type do not overlap and come in increasing start order.
C14_EntitySpans ==
  fnOut.kind = "entities" =>
    /\ \A n \in 1..Len(fnOut.value) :
         /\ 0 <= fnOut.value[n].start
         /\ fnOut.value[n].start < fnOut.value[n].end
         /\ fnOut.value[n].end <= Len(fnIn.text)
         /\ SubSeq(fnIn.text, fnOut.value[n].start + 1, fnOut.value[n].end) = fnOut.value[n].value
    /\ \A n, m \in 1..Len(fnOut.value) :
         (n < m /\ fnOut.value[n].type = fnOut.value[m].type) =>
           fnOut.value[n].end <= fnOut.value[m].start

\* four urgency words and, among them, three time words, the third `now`
\* in upper case at 8..11
C14_Witness ==
  /\ fnOut.kind = "entities" /\ fnIn.text = "now now NOW, quickly"
  /\ Len(fnOut.value) = 7
  /\ fnOut.value[3] = [type |-> "urgency", value |-> "NOW", confidence |-> 90,
                       start |-> 8, end |-> 11]
  /\ fnOut.value[7].type = "time" /\ fnOut.value[7].start = 8

PositiveLexicon == {"good", "great", "happy", "calm", "success", "progress", "better",
                    "improvement"}
NegativeLexicon == {"bad", "terrible", "angry", "upset", "problem", "issue", "difficult",
                    "struggle"}

\* w occurs in t at position i
occursAt(t, w, i) ==
  IF i + Len(w) - 1 <= Len(t) THEN SubSeq(t, i, i + Len(w) - 1) = w ELSE FALSE

\* the number of occurrences in t of the words of the lexicon
occurrences(t, lexicon) ==
  Cardinality({p \in lexicon \X (1..Len(t)) : occursAt(t, p[1], p[2])})

\* the number of words of the lexicon that occur in t
wordsPresent(t, lexicon) ==
  Cardinality({w \in lexicon : \E i \in 1..Len(t) : occursAt(t, w, i)})

vote(positive, negative) ==
  IF positive > negative THEN "positive"
  ELSE IF positive < negative THEN "negative"
  ELSE "neutral"

\* C15 as stated: the sentiment is the vote of the number of occurrences
\* of positive-lexicon words in the lowercased text, every occurrence
\* counted, against the number of occurrences of negative-lexicon words;
\* neutral on every tie.
C15_SentimentByOccurrences ==
  fnOut.kind = "sentiment" =>
    fnOut.value = vote(occurrences(toLowerCase(fnIn.text), PositiveLexicon),
                       occurrences(toLowerCase(fnIn.text), NegativeLexicon))

\* C15 amended: the sentiment is the vote of the number of positive-lexicon
\* words that occur in the lowercased text, each word counted once however
\* often it occurs, against the number of negative-lexicon words that
\* occur; substring containment, neutral on every tie, 0-0 included.
C15_SentimentByWordsPresent ==
  fnOut.kind = "sentiment" =>
    fnOut.value = vote(wordsPresent(toLowerCase(fnIn.text), PositiveLexicon),
                       wordsPresent(toLowerCase(fnIn.text), NegativeLexicon))

\* three occurrences of one positive word against two negative words: negative
C15_Witness ==
  /\ fnOut.kind = "sentiment" /\ fnIn.text = "great great great, terrible issue"
  /\ fnOut.value = "negative"

tablePriority(category) ==
  IF category = "crisis" THEN 10
  ELSE IF category = "medical" THEN 9
  ELSE IF category = "behavioral" THEN 7
  ELSE IF category = "support" THEN 6
  ELSE IF category = "academic" THEN 5
  ELSE IF category = "routine" THEN 4
  ELSE 5

markerBonus(content) ==
  IF containsAny(content, {"urgent", "emergency", "immediate", "asap"}) THEN 2 ELSE 0

----------------------------------------------------------------------------
(* Properties of calls that follow one another (checked under Spec)        *)

\* the last two completed calls are analyses that returned
twoAnalyses ==
  /\ completion.op = "analyze" /\ completion.outcome = "returned"
  /\ previous.op = "analyze" /\ previous.outcome = "returned"

noOtherCall == \A c \in Calls : c > 2 => op[c] = "none"

\* the second call is an ingest made after an initialize had returned, so
\* on a Ready service with no other call in flight, and it has returned
ingestAlone ==
  /\ op[1] = "initialize" /\ outcome[1] = "returned"
  /\ calledReady[2] /\ op[2] = "ingest" /\ outcome[2] = "returned"
  /\ noOtherCall

\* the catalog the initialize call left in memory
catalogBefore ==
  IF storeAtStart.present THEN storeAtStart.value ELSE defaultKnowledge(1)

idsOf(items) == {items[n].id : n \in 1..Len(items)}

\* the items from position `from` on are made of the input items, in order
appended(catalog, from, data) ==
  /\ Len(catalog) = from + Len(data)
  /\ \A k \in 1..Len(data) :
       /\ catalog[from + k].content = data[k].content
       /\ catalog[from + k].category = data[k].category
       /\ (data[k].hasKeywords => catalog[from + k].keywords = data[k].keywords)
       /\ catalog[from + k].id \notin idsOf(SubSeq(catalog, 1, from + k - 1))

\* C18: after a successful ingest of n items on a Ready service with no
\* other call in flight, the in-memory catalog is the previous catalog,
\* every item unchanged and in its place, followed by the n new items in
\* input order, and the stored catalog is that whole in-memory catalog.
C18_IngestAppends ==
  ingestAlone =>
    /\ SubSeq(knowledgeBase, 1, Len(catalogBefore)) = catalogBefore
    /\ appended(knowledgeBase, Len(catalogBefore), completion.arg.data)
    /\ store = KvValue(knowledgeBase)

\* two different items were ingested into the loaded catalog
C18_Witness ==
  /\ ingestAlone
  /\ storeAtStart.present
  /\ Len(completion.arg.data) = 2
  /\ completion.arg.data[1].category = "sensory" /\ completion.arg.data[2].category = "medical"
  /\ Len(knowledgeBase) = Len(storeAtStart.value) + 2
  /\ store = KvValue(knowledgeBase)

\* call c resumes in this step from a failed write of its ingest
saveFails(c) == pc[c] = "save_resp" /\ io[c].kind = "error" /\ pc'[c] # pc[c]

\* C19: an ingest whose store write fails, or whose initialization fails,
\* throws to its caller and does not return normally; it has then
\* completed: no second write is attempted and the store is as it was.
C19_IngestThrows ==
  [][\A c \in Calls : op[c] = "ingest" =>
       /\ saveFails(c) =>
            /\ pc'[c] = "done" /\ outcome'[c] = "thrown" /\ failedAt'[c] = "save"
            /\ store' = store
       /\ initFails(c) =>
            /\ pc'[c] = "done" /\ outcome'[c] = "thrown"
            /\ failedAt'[c] \in {"load", "seed"}
       /\ pc[c] = "done" => (pc'[c] = "done" /\ io'[c] = io[c] /\ outcome'[c] = outcome[c])
       /\ outcome'[c] = "returned" => failedAt'[c] = "none"]_vars

\* an ingest on the loaded catalog threw its failed write: the items are in
\* memory, the store is as it was
C19_Witness ==
  /\ op[1] = "ingest" /\ outcome[1] = "thrown" /\ failedAt[1] = "save"
  /\ storeAtStart.present /\ store = storeAtStart
  /\ Len(knowledgeBase) > Len(store.value)
  /\ pc[2] = "idle"

\* both calls are ingests that returned, the second made on the Ready service
bothIngested ==
  /\ op[1] = "ingest" /\ outcome[1] = "returned"
  /\ op[2] = "ingest" /\ outcome[2] = "returned"
  /\ calledReady[2]
  /\ noOtherCall

\* the ids of the items that call c created from its input
itemIdsOf(c) ==
  IF completion.call = c
  THEN {randomUUID(c, "item", k) : k \in 1..Len(completion.arg.data)}
  ELSE {randomUUID(c, "item", k) : k \in 1..Len(previous.arg.data)}

\* the items the in-memory catalog has behind the stored ones
notStored == SubSeq(knowledgeBase, Len(store.value) + 1, Len(knowledgeBase))

\* when both ingests have returned, the catalog in memory has the items of
\* both, and the store has a catalog one of the two handed over: all of
\* it, or all but the items of one call
lostAtMostOneWrite ==
  bothIngested =>
    /\ (itemIdsOf(1) \cup itemIdsOf(2)) \subseteq idsOf(knowledgeBase)
    /\ store.present
    /\ Len(store.value) <= Len(knowledgeBase)
    /\ store.value = SubSeq(knowledgeBase, 1, Len(store.value))
    /\ \/ notStored = << >>
       \/ \E c \in Calls : idsOf(notStored) = itemIdsOf(c)

\* the store carries out in this step a write that ingest call c requested
saveServed(c) == pc[c] = "save_req" /\ pc'[c] = "save_resp" /\ io'[c].kind = "ack"

\* C20: two ingests that overlap on a Ready service can both return and
\* leave the store without the items of one of them.  The store replaces
\* its value by the catalog each write hands over, so the write carried out
\* last wins; once both have returned, what the store lacks is nothing or
\* the items of one call (the reachable state C20_Witness is the lost
\* write).
C20_LastWriteWins ==
  [][/\ \A c \in Calls : saveServed(c) => store' = KvValue(io[c].data)
     /\ lostAtMostOneWrite']_vars

\* both ingests returned, the catalog in memory has the items of both, the
\* store lacks those of the second call
C20_Witness ==
  /\ bothIngested
  /\ itemIdsOf(1) # {} /\ itemIdsOf(2) # {}
  /\ (itemIdsOf(1) \cup itemIdsOf(2)) \subseteq idsOf(knowledgeBase)
  /\ itemIdsOf(1) \subseteq idsOf(store.value)
  /\ idsOf(store.value) \cap itemIdsOf(2) = {}

----------------------------------------------------------------------------
(* Suspension points of an analysis (checked under Spec)                   *)

\* call c is an analysis called on the Ready service that has not returned
analyzingReady(c) == op[c] = "analyze" /\ calledReady[c] /\ pc[c] \in {"ready", "retrieve"}

\* what performAnalysis makes of the awaited retrieval: `suggested || undefined`
orUndefined(suggested) == IF suggested = JsNull THEN JsUndefined ELSE suggested

\* the completed call is an analysis of a string in which an intent was found
retrieved ==
  /\ completion.op = "analyze" /\ completion.outcome = "returned"
  /\ completion.arg.content.kind = "string"
  /\ Len(stepsOf[completion.arg.content.value].intents) > 0

\* the retrieval for the completed analysis, made on the catalog kb
retrievalOn(kb) ==
  LET steps == stepsOf[completion.arg.content.value]
  IN  orUndefined(retrieveResponse(kb, steps.intents[1], steps.entities))

\* C21 as the specification states it: once the service is Ready, an analyze
\* invocation has no suspension point, so every step taken between its
\* start and its return is a step of the invocation itself.
C21_AnalyzeNeverSuspends ==
  [][\A c \in Calls : analyzingReady(c) => pc'[c] # pc[c]]_vars

\* C21, amended: an analysis called on the Ready service never waits for the
\* store and never throws; it is suspended only behind ensureInitialized and
\* before its retrieval, where steps of other calls may run, and its
\* suggested response is retrieved from the catalog as the returning step
\* finds it.
C21_AnalyzeSuspendsOffStore ==
  /\ \A c \in Calls :
       (op[c] = "analyze" /\ calledReady[c]) =>
         /\ pc[c] \in {"ready", "retrieve", "done"}
         /\ io[c] = NoValue
         /\ outcome[c] # "thrown"
  /\ retrieved => completion.value.value.suggestedResponse = retrievalOn(completion.catalog)

\* the second call, an analysis called on the Ready service, returned a
\* response that the catalog as it was at the call does not give: the other
\* call appended the item in between
C21_Witness ==
  /\ completion.call = 2 /\ calledReady[2]
  /\ retrieved
  /\ Len(completion.catalog) > sizeAtCall[2]
  /\ completion.value.value.suggestedResponse # JsUndefined
  /\ completion.value.value.suggestedResponse
       # retrievalOn(SubSeq(completion.catalog, 1, sizeAtCall[2]))

----------------------------------------------------------------------------
(* The context argument (checked under Spec)                               *)

\* the last two completed calls analysed the same content on the same catalog
sameTextAndCatalog ==
  /\ twoAnalyses
  /\ completion.arg.content = previous.arg.content
  /\ completion.catalog = previous.catalog

\* C22: the result of analyze does not depend on the context: two analyses
\* of the same text on the same catalog return the same result whatever
\* studentId, senderRole and previousMessages each was given, or none.
C22_ContextIgnored ==
  sameTextAndCatalog => completion.value = previous.value

\* the meltdown message was analysed for a parent with an earlier message
\* and then with no context at all, with the same result
C22_Witness ==
  /\ sameTextAndCatalog
  /\ previous.arg.content.kind = "string" /\ previous.arg.content.value = MeltdownText
  /\ previous.arg.context.given /\ previous.arg.context.senderRole = "parent"
  /\ Len(previous.arg.context.previousMessages) > 0
  /\ ~completion.arg.context.given
  /\ completion.value.value.suggestedResponse # JsUndefined
  /\ completion.value = previous.value

----------------------------------------------------------------------------
(* The intent the orchestrator consults (checked under SpecFn)             *)

\* an analysis was made and found at least one intent
analysedWithIntent == fnOut.kind = "analysis" /\ Len(fnOut.value.intents) > 0

\* position of a category in the order the rules are tried in
ruleRank(category) ==
  CHOOSE n \in 1..Len(RuleTable) : RuleTable[n].category = category

\* the suggested response the catalog gives for the intent i
responseFor(i) ==
  orUndefined(retrieveResponse(fnIn.catalog, i, fnOut.value.entities))

\* C23 as the specification states it: the intent analyze consults, the
\* first of the recognizer's output, has the highest confidence of the
\* intents recognized.
C23_FirstIntentHighestConfidence ==
  analysedWithIntent =>
    \A k \in 1..Len(fnOut.value.intents) :
      fnOut.value.intents[k].confidence <= fnOut.value.intents[1].confidence

\* C23, amended: the intent analyze consults is the first of the
\* recognizer's output, which is the intent of the earliest rule that
\* matched in the order crisis, behavioral, medical, academic, support,
\* routine.  Another intent has a greater confidence in two cases only: a
\* medical intent (0.85) behind a behavioral one (0.80) and a support intent
\* (0.75) behind an academic one (0.70).
C23_FirstIntentEarliestRule ==
  analysedWithIntent =>
    LET intents == fnOut.value.intents
    IN  /\ \A k \in 2..Len(intents) :
             ruleRank(intents[1].category) < ruleRank(intents[k].category)
        /\ \A k \in 2..Len(intents) :
             intents[k].confidence > intents[1].confidence =>
               \/ intents[1].category = "behavioral" /\ intents[k].category = "medical"
               \/ intents[1].category = "academic" /\ intents[k].category = "support"
        /\ fnOut.value.suggestedResponse = responseFor(intents[1])

\* a message with a behavioral and a medical trigger was answered from the
\* behavioral item, although the medical intent has the greater confidence
\* and the catalog has a medical item
C23_Witness ==
  /\ analysedWithIntent
  /\ fnIn.text = "Tired and in pain, he cannot focus"
  /\ fnIn.catalog = PriorCatalog
  /\ categoryAndConfidence(fnOut.value.intents) =
       << [category |-> "behavioral", confidence |-> 80],
          [category |-> "medical", confidence |-> 85] >>
  /\ fnOut.value.suggestedResponse = responseFor(fnOut.value.intents[1])
  /\ fnOut.value.suggestedResponse # responseFor(fnOut.value.intents[2])
  /\ responseFor(fnOut.value.intents[2]) # JsUndefined

----------------------------------------------------------------------------
(* Order and duplicates of the entity list (checked under SpecFn)          *)

\* the lexicon word w stands as a whole word at position i of t, in any case
wordAt(t, w, i) ==
  /\ i + Len(w) - 1 <= Len(t)
  /\ toLowerCase(SubSeq(t, i, i + Len(w) - 1)) = w
  /\ (i = 1 \/ SubSeq(t, i - 1, i - 1) \notin WordChars)
  /\ (i + Len(w) - 1 = Len(t) \/ SubSeq(t, i + Len(w), i + Len(w)) \notin WordChars)

EntityTable == <<
  [type |-> "emotion", confidence |-> 80,
   lexicon |-> {"happy", "sad", "angry", "frustrated", "calm", "excited", "anxious",
                "overwhelmed"}],
  [type |-> "urgency", confidence |-> 90,
   lexicon |-> {"urgent", "immediate", "asap", "emergency", "now", "quickly"}],
  [type |-> "time", confidence |-> 70,
   lexicon |-> {"morning", "afternoon", "lunch", "recess", "today", "tomorrow", "now"}] >>

typeRank(type) == CHOOSE n \in 1..Len(EntityTable) : EntityTable[n].type = type

\* the spans at which a word of the lexicon stands in t
spansOf(t, lexicon) ==
  {[start |-> p[2] - 1, end |-> p[2] - 1 + Len(p[1])] :
     p \in {q \in lexicon \X (1..Len(t)) : wordAt(t, q[1], q[2])}}

spanOf(e) == [start |-> e.start, end |-> e.end]

ofType(entities, type) == SelectSeq(entities, LAMBDA e : e.type = type)

\* C24: the entity list holds the emotion entities, then the urgency
\* entities, then the time entities, with confidences 0.8, 0.9 and 0.7; each
\* type has one entity for every place a word of its lexicon stands at, so
\* `now` gives an urgency and a time entity with the same span and nothing
\* is deduplicated.
C24_EntityOrder ==
  fnOut.kind = "entities" =>
    LET E == fnOut.value
    IN  /\ \A n, m \in 1..Len(E) : n < m => typeRank(E[n].type) <= typeRank(E[m].type)
        /\ \A n \in 1..Len(E) : E[n].confidence = EntityTable[typeRank(E[n].type)].confidence
        /\ \A r \in 1..Len(EntityTable) :
             LET found == ofType(E, EntityTable[r].type)
             IN  /\ {spanOf(found[n]) : n \in 1..Len(found)}
                      = spansOf(fnIn.text, EntityTable[r].lexicon)
                 /\ Len(found) = Cardinality(spansOf(fnIn.text, EntityTable[r].lexicon))
        /\ \A i \in 1..Len(fnIn.text) :
             wordAt(fnIn.text, "now", i) =>
               \E n, m \in 1..Len(E) :
                 /\ E[n].type = "urgency" /\ E[m].type = "time"
                 /\ spanOf(E[n]) = [start |-> i - 1, end |-> i + 2]
                 /\ spanOf(E[m]) = spanOf(E[n])

\* the two emotions come first although `now` stands between them in the
\* text, and `now` is there twice with the same span
C24_Witness ==
  /\ fnOut.kind = "entities" /\ fnIn.text = "Angry now, calm by lunch"
  /\ [n \in 1..Len(fnOut.value) |-> << fnOut.value[n].type, fnOut.value[n].value >>] =
       << << "emotion", "Angry" >>, << "emotion", "calm" >>, << "urgency", "now" >>,
          << "time", "now" >>, << "time", "lunch" >> >>
  /\ spanOf(fnOut.value[3]) = [start |-> 6, end |-> 9]
  /\ spanOf(fnOut.value[4]) = spanOf(fnOut.value[3])

----------------------------------------------------------------------------
(* Analyses without an intent (checked under SpecFn)                       *)

\* an entity of the analysis has a keyword of a catalog item in its value
entityMatchesKeyword ==
  \E n \in 1..Len(fnIn.catalog), e \in 1..Len(fnOut.value.entities) :
    \E k \in 1..Len(fnIn.catalog[n].keywords) :
      substringAnyCase(fnIn.catalog[n].keywords[k], fnOut.value.entities[e].value)

\* C25: analyze looks a suggested response up only when an intent was
\* recognized: the analysis of a text with no intent has no suggested
\* response, also when one of its entities matches a keyword of a catalog
\* item.
C25_NoIntentNoResponse ==
  (fnOut.kind = "analysis" /\ Len(fnOut.value.intents) = 0) =>
    fnOut.value.suggestedResponse = JsUndefined

\* on the seed catalog the only finding is the emotion `overwhelmed`, which
\* is a keyword of the crisis item, and no response is suggested
C25_Witness ==
  /\ fnOut.kind = "analysis"
  /\ fnIn.text = "Student seems overwhelmed by noise in the classroom"
  /\ fnIn.catalog = defaultKnowledge(0)
  /\ fnOut.value.intents = << >>
  /\ Len(fnOut.value.entities) = 1
  /\ fnOut.value.entities[1].type = "emotion" /\ fnOut.value.entities[1].value = "overwhelmed"
  /\ entityMatchesKeyword
  /\ fnOut.value.suggestedResponse = JsUndefined

----------------------------------------------------------------------------
(* What an analysis and a retrieval leave alone (checked under Spec)       *)

\* this step is one of call c, an analysis or a retrieval called on the
\* Ready service (its first step is the call itself)
readerSteps(c) ==
  /\ op'[c] \in {"analyze", "getSuggestedResponse"}
  /\ calledReady'[c]
  /\ pc'[c] # pc[c]

\* C26: on a Ready service analyze and getSuggestedResponse only read the
\* catalog: no step of theirs changes the in-memory catalog, items and
\* order, and none writes to the store or asks it to.
C26_ReadersOnlyRead ==
  [][\A c \in Calls :
       readerSteps(c) =>
         /\ knowledgeBase' = knowledgeBase
         /\ store' = store
         /\ io'[c] = NoValue]_vars

\* an analysis called on the Ready service was answered from a medical item
\* that stands behind a medical item of lower priority, and the catalog
\* still has the two in that order
C26_Witness ==
  /\ completion.call = 2 /\ calledReady[2]
  /\ retrieved
  /\ knowledgeBase = completion.catalog
  /\ \E n, m \in 1..Len(knowledgeBase) :
       /\ n < m
       /\ knowledgeBase[n].category = "medical" /\ knowledgeBase[m].category = "medical"
       /\ knowledgeBase[n].priority < knowledgeBase[m].priority
       /\ completion.value.value.suggestedResponse = knowledgeBase[m].responses[1]

----------------------------------------------------------------------------
(* Initializations that overlap (checked under Spec)                       *)

\* the ids of the items that the ingest call c created and that are in kb
itemsOfIn(c, kb) == {randomUUID(c, "item", k) : k \in 1..MaxBatch} \cap idsOf(kb)

\* C27: the catalog is append-only under every interleaving: the items of
\* an ingest call that has returned are in the in-memory catalog (C18 has
\* them there at the return) and no later step removes one, whatever calls
\* overlap with the ingest or follow it.
C27_AppendOnly ==
  [][\A c \in Calls :
       (op[c] = "ingest" /\ outcome[c] = "returned") =>
         itemsOfIn(c, knowledgeBase) \subseteq itemsOfIn(c, knowledgeBase')]_vars

\* the store carries out in this step the kv.get of call c
loadServed(c) == pc[c] = "get_req" /\ pc'[c] = "get_resp" /\ io'[c].kind = "value"

\* the store carries out in this step the seed write of call c
seedServed(c) == pc[c] = "seed_req" /\ pc'[c] = "seed_resp" /\ io'[c].kind = "ack"

\* call c is inside initialize, between its kv.get and the end of its seeding
initializing(c) == pc[c] \in {"get_req", "get_resp", "seed_req", "seed_resp"}

\* C28: when initialize or ensureInitialized calls overlap on an empty
\* store, the catalog is loaded once and the seed set is written once: no
\* load is served for a call while another call is inside initialize, and a
\* seed set is written only to a store that holds no catalog.
C28_InitializedOnce ==
  [][\A c \in Calls :
       /\ loadServed(c) => \A d \in Calls \ {c} : ~initializing(d)
       /\ seedServed(c) => ~store.present]_vars

----------------------------------------------------------------------------
(* The catalog after a failed write (checked under Spec)                   *)

\* C29: when the store write of an ingest fails, the batch is not left in
\* the in-memory catalog: as the call throws, none of the items it created
\* is in the catalog, so that no later analysis is answered from an item
\* that was never stored.
C29_FailedIngestLeavesNothing ==
  [][\A c \in Calls :
       (op[c] = "ingest" /\ saveFails(c)) => itemsOfIn(c, knowledgeBase') = {}]_vars

----------------------------------------------------------------------------
(* Duplicates in the required actions (checked under SpecFn)               *)

\* the action list an application of the determiner or of the whole
\* analysis gave
actionsGiven ==
  IF fnOut.kind = "actions" THEN fnOut.value ELSE fnOut.value.requiredActions

noDuplicates(seq) == \A n, m \in 1..Len(seq) : n # m => seq[n] # seq[m]

\* C30: each required-action tag appears at most once in a result: no two
\* rules emit the same tag and no rule emits a tag twice, also when several
\* intents of one category are handed in; so the list has at most 8
\* entries.
C30_ActionsDistinct ==
  fnOut.kind \in {"actions", "analysis"} =>
    /\ noDuplicates(actionsGiven)
    /\ Len(actionsGiven) <= 8

\* the analysis of a text that triggers every rule has all eight tags,
\* each once
C30_Witness ==
  /\ fnOut.kind = "analysis" /\ fnIn.text = AllRulesText
  /\ Len(fnOut.value.intents) = 6
  /\ Len(actionsGiven) = 8
  /\ noDuplicates(actionsGiven)

====
